---- MODULE Spec2Model ----
(***************************************************************************)
(* Library entry/exit tracking: the scan page (ScanPage) with its helpers  *)
(* over the browser's localStorage ('students', 'entryLogs'), and the      *)
(* add-student page that fills the student store.                          *)
(*                                                                         *)
(* Strings the code manipulates are modelled by what the code does to      *)
(* them:                                                                   *)
(*   - ids are sequences of one-character strings, so that trim(),         *)
(*     toLowerCase() and toUpperCase() are computed;                       *)
(*   - image payloads (data URIs) are run-length encoded character         *)
(*     strings, a sequence of runs [ch, n] kept canonical (no empty run,   *)
(*     neighbouring runs of different characters), so that length,         *)
(*     substring() and === are computed on payloads of thousands of        *)
(*     characters;                                                         *)
(*   - an optional string (string | undefined | null) is a record          *)
(*     [def, str].                                                         *)
(* Times are milliseconds since the epoch, as Date.getTime() returns.      *)
(***************************************************************************)
EXTENDS Integers, Sequences, FiniteSets, TLC

VARIABLES
    students,            \* localStorage 'students': sequence of Student
    entryLogs,           \* localStorage 'entryLogs': sequence of EntryLog
    isProcessing,        \* ScanPage state
    isDetecting,
    isExtracting,
    scanSessionError,
    lastScanResult,
    capturedImageUri,
    processingTimeoutRef,
    lastProcessedImage,
    detectionCoolDown,
    coolDownTimers,      \* pending setTimeout callbacks of the non-card cooldown
    inFlight,            \* processCapturedImage calls suspended at an await
    imageUri1,           \* arguments and result of a direct call of
    imageUri2,           \* compareImagesRoughly
    match,
    lookupId,            \* argument and result of a direct call of
    lookupResult,        \* getStudentById or getLastLogForStudent
    pageStudents,        \* AdminManageStudentsPage state: students
    studentToEdit,
    isEditDialogOpen,
    editModeCapturedImageUri,
    libraryBranches,     \* localStorage 'libraryBranches' as getBranches reads it
    formValues,          \* StudentForm: the field values and the issues the
    formIssues,          \* resolver of studentFormSchema reports on submit
    stations,            \* two scan pages on one localStorage: per page, how
                         \* far its call of sharedProcessLogic has come
    isActive,            \* BarcodeScanner of the scan page: state and refs
    isStarting,
    scanIntervalRef,     \* TRUE while the auto-scan interval is set
    streamRef,           \* TRUE while a camera stream is held
    cleanupCalledRef,
    scannerMounted,
    isEditModeScanning,  \* AdminManageStudentsPage state: the image section
    isEditModeExtracting, \* of the edit dialog
    editModeExtractionError,
    editingBranch        \* AdminBranchesPage state: the branch being renamed

pageVars == <<isProcessing, isDetecting, isExtracting, scanSessionError,
              lastScanResult, capturedImageUri,
              processingTimeoutRef, lastProcessedImage, detectionCoolDown,
              coolDownTimers, inFlight>>
storeVars == <<students, entryLogs>>
cmpVars == <<imageUri1, imageUri2, match>>
readVars == <<lookupId, lookupResult>>
formVars == <<formValues, formIssues>>
scannerVars == <<isActive, isStarting, scanIntervalRef, streamRef,
                 cleanupCalledRef, scannerMounted>>
editImageVars == <<isEditModeScanning, isEditModeExtracting,
                   editModeExtractionError>>
callVars == <<cmpVars, readVars, formVars, stations, scannerVars,
              editImageVars, editingBranch>>
manageVars == <<pageStudents, studentToEdit, isEditDialogOpen,
                editModeCapturedImageUri>>
adminVars == <<manageVars, libraryBranches>>
vars == <<students, entryLogs, isProcessing, isDetecting, isExtracting,
          scanSessionError, lastScanResult, capturedImageUri,
          processingTimeoutRef, lastProcessedImage, detectionCoolDown,
          coolDownTimers, inFlight, imageUri1, imageUri2, match,
          lookupId, lookupResult, pageStudents, studentToEdit,
          isEditDialogOpen, editModeCapturedImageUri, libraryBranches,
          formValues, formIssues, stations, isActive, isStarting,
          scanIntervalRef, streamRef, cleanupCalledRef, scannerMounted,
          isEditModeScanning, isEditModeExtracting, editModeExtractionError,
          editingBranch>>

-----------------------------------------------------------------------------
(* Bounds of the model *)

MaxStudents == 2
MaxLogs == 3
MaxTick == 2
TickMs == 2500
MaxInFlight == 1
MaxCoolDownTimers == 1
MaxJitter == 1

(* Program constants *)

MIN_LIBRARY_INTERVAL_SECONDS == 10
LengthTolerancePercent == 5
SegmentPercent == 10
MaxSegmentLength == 500
MinSegmentLength == 50

-----------------------------------------------------------------------------
(* Integer helpers *)

Max(a, b) == IF a >= b THEN a ELSE b
Min(a, b) == IF a <= b THEN a ELSE b
Abs(a) == IF a >= 0 THEN a ELSE -a

\* Math.ceil(n / d) for an integer n of either sign and d > 0
CeilDiv(n, d) == -((-n) \div d)

-----------------------------------------------------------------------------
(* Id strings: sequences of characters *)

IsWhitespace(c) == c = " "

ToLowerChar(c) ==
    CASE c = "A" -> "a"
      [] c = "B" -> "b"
      [] c = "C" -> "c"
      [] c = "E" -> "e"
      [] c = "L" -> "l"
      [] c = "M" -> "m"
      [] c = "S" -> "s"
      [] OTHER -> c

ToUpperChar(c) ==
    CASE c = "a" -> "A"
      [] c = "b" -> "B"
      [] c = "c" -> "C"
      [] c = "e" -> "E"
      [] c = "l" -> "L"
      [] c = "m" -> "M"
      [] c = "s" -> "S"
      [] OTHER -> c

toLowerCase(s) == [i \in 1..Len(s) |-> ToLowerChar(s[i])]
toUpperCase(s) == [i \in 1..Len(s) |-> ToUpperChar(s[i])]

RECURSIVE TrimStart(_)
TrimStart(s) ==
    IF s = <<>> THEN <<>>
    ELSE IF IsWhitespace(Head(s)) THEN TrimStart(Tail(s)) ELSE s

RECURSIVE TrimEnd(_)
TrimEnd(s) ==
    IF s = <<>> THEN <<>>
    ELSE IF IsWhitespace(s[Len(s)]) THEN TrimEnd(SubSeq(s, 1, Len(s) - 1)) ELSE s

trim(s) == TrimEnd(TrimStart(s))

-----------------------------------------------------------------------------
(* Image payloads: run-length encoded strings *)

RECURSIVE Canon(_)
Canon(p) ==
    IF p = <<>> THEN <<>>
    ELSE LET rest == Canon(Tail(p))
             r == Head(p)
         IN IF r.n = 0 THEN rest
            ELSE IF rest # <<>> /\ rest[1].ch = r.ch
                 THEN <<[ch |-> r.ch, n |-> r.n + rest[1].n]>> \o Tail(rest)
                 ELSE <<r>> \o rest

RECURSIVE StrLen(_)
StrLen(p) == IF p = <<>> THEN 0 ELSE Head(p).n + StrLen(Tail(p))

\* s.substring(s.length - w): the last w characters, 0 <= w <= s.length
RECURSIVE LastChars(_, _)
LastChars(p, w) ==
    IF w = 0 \/ p = <<>> THEN <<>>
    ELSE LET r == p[Len(p)]
         IN IF r.n >= w THEN <<[ch |-> r.ch, n |-> w]>>
            ELSE LastChars(SubSeq(p, 1, Len(p) - 1), w - r.n) \o <<r>>

\* the i-th character of p, 1 <= i <= StrLen(p)
RECURSIVE CharAt(_, _)
CharAt(p, i) == IF i <= Head(p).n THEN Head(p).ch ELSE CharAt(Tail(p), i - Head(p).n)

Some(s) == [def |-> TRUE, str |-> s]
Undefined == [def |-> FALSE, str |-> <<>>]

\* JavaScript truthiness of a string | undefined | null value
Truthy(u) == u.def /\ u.str # <<>>

Run(c, k) == [ch |-> c, n |-> k]

-----------------------------------------------------------------------------
(* compareImagesRoughly: "true", "false" or "undefined" *)

Match == "true"
Mismatch == "false"
Inconclusive == "undefined"

\* Faulty variant: the test for identical strings is missing
compareImagesRoughly_NoIdentityTest(u1, u2) ==
    IF ~Truthy(u1) \/ ~Truthy(u2) THEN "undefined"
    ELSE LET len1 == StrLen(u1.str)
             len2 == StrLen(u2.str)
             \* Math.abs(len1 - len2) > Math.max(len1, len2) * 0.05: the double
             \* nearest 0.05 lies just above 0.05, so the product never rounds
             \* below the exact value and, the lengths being integers, the
             \* comparison is the exact one
             tooDifferent == 100 * Abs(len1 - len2) > LengthTolerancePercent * Max(len1, len2)
             \* Math.floor(len * 0.1) = len div 10 for the same reason
             segmentLength == Min(MaxSegmentLength,
                                  Min((SegmentPercent * len1) \div 100,
                                      (SegmentPercent * len2) \div 100))
         IN IF tooDifferent THEN "false"
            ELSE IF segmentLength < MinSegmentLength THEN "undefined"
            ELSE IF LastChars(u1.str, segmentLength) = LastChars(u2.str, segmentLength)
                 THEN "true" ELSE "false"

\* Faulty variant: only the first image is tested for being missing
compareImagesRoughly_FirstOnly(u1, u2) ==
    IF ~Truthy(u1) THEN "undefined"
    ELSE IF u1.str = u2.str THEN "true"
    ELSE LET len1 == StrLen(u1.str)
             len2 == StrLen(u2.str)
             \* Math.abs(len1 - len2) > Math.max(len1, len2) * 0.05: the double
             \* nearest 0.05 lies just above 0.05, so the product never rounds
             \* below the exact value and, the lengths being integers, the
             \* comparison is the exact one
             tooDifferent == 100 * Abs(len1 - len2) > LengthTolerancePercent * Max(len1, len2)
             \* Math.floor(len * 0.1) = len div 10 for the same reason
             segmentLength == Min(MaxSegmentLength,
                                  Min((SegmentPercent * len1) \div 100,
                                      (SegmentPercent * len2) \div 100))
         IN IF tooDifferent THEN "false"
            ELSE IF segmentLength < MinSegmentLength THEN "undefined"
            ELSE IF LastChars(u1.str, segmentLength) = LastChars(u2.str, segmentLength)
                 THEN "true" ELSE "false"

\* Faulty variant: the lengths are not compared
compareImagesRoughly_NoLengthTest(u1, u2) ==
    IF ~Truthy(u1) \/ ~Truthy(u2) THEN "undefined"
    ELSE IF u1.str = u2.str THEN "true"
    ELSE LET len1 == StrLen(u1.str)
             len2 == StrLen(u2.str)
             \* Math.abs(len1 - len2) > Math.max(len1, len2) * 0.05: the double
             \* nearest 0.05 lies just above 0.05, so the product never rounds
             \* below the exact value and, the lengths being integers, the
             \* comparison is the exact one
             tooDifferent == 100 * Abs(len1 - len2) > LengthTolerancePercent * Max(len1, len2)
             \* Math.floor(len * 0.1) = len div 10 for the same reason
             segmentLength == Min(MaxSegmentLength,
                                  Min((SegmentPercent * len1) \div 100,
                                      (SegmentPercent * len2) \div 100))
         IN IF segmentLength < MinSegmentLength THEN "undefined"
            ELSE IF LastChars(u1.str, segmentLength) = LastChars(u2.str, segmentLength)
                 THEN "true" ELSE "false"

\* Faulty variant: the segment is not capped at 500 characters
compareImagesRoughly_NoCap(u1, u2) ==
    IF ~Truthy(u1) \/ ~Truthy(u2) THEN "undefined"
    ELSE IF u1.str = u2.str THEN "true"
    ELSE LET len1 == StrLen(u1.str)
             len2 == StrLen(u2.str)
             \* Math.abs(len1 - len2) > Math.max(len1, len2) * 0.05: the double
             \* nearest 0.05 lies just above 0.05, so the product never rounds
             \* below the exact value and, the lengths being integers, the
             \* comparison is the exact one
             tooDifferent == 100 * Abs(len1 - len2) > LengthTolerancePercent * Max(len1, len2)
             \* Math.floor(len * 0.1) = len div 10 for the same reason
             segmentLength == Min((SegmentPercent * len1) \div 100,
                                 (SegmentPercent * len2) \div 100)
         IN IF tooDifferent THEN "false"
            ELSE IF segmentLength < MinSegmentLength THEN "undefined"
            ELSE IF LastChars(u1.str, segmentLength) = LastChars(u2.str, segmentLength)
                 THEN "true" ELSE "false"

compareImagesRoughly(u1, u2) ==
    IF ~Truthy(u1) \/ ~Truthy(u2) THEN "undefined"
    ELSE IF u1.str = u2.str THEN "true"
    ELSE LET len1 == StrLen(u1.str)
             len2 == StrLen(u2.str)
             \* Math.abs(len1 - len2) > Math.max(len1, len2) * 0.05: the double
             \* nearest 0.05 lies just above 0.05, so the product never rounds
             \* below the exact value and, the lengths being integers, the
             \* comparison is the exact one
             tooDifferent == 100 * Abs(len1 - len2) > LengthTolerancePercent * Max(len1, len2)
             \* Math.floor(len * 0.1) = len div 10 for the same reason
             segmentLength == Min(MaxSegmentLength,
                                  Min((SegmentPercent * len1) \div 100,
                                      (SegmentPercent * len2) \div 100))
         IN IF tooDifferent THEN "false"
            ELSE IF segmentLength < MinSegmentLength THEN "undefined"
            ELSE IF LastChars(u1.str, segmentLength) = LastChars(u2.str, segmentLength)
                 THEN "true" ELSE "false"

-----------------------------------------------------------------------------
(* Inputs of the environment *)

\* wall-clock readings of new Date(); the wall clock may be set back, so a
\* later call may read an earlier time
Times == {TickMs} \cup {k * MIN_LIBRARY_INTERVAL_SECONDS * 1000 : k \in 0..MaxTick}

ImgA == Some(<<Run("A", 600)>>)
ImgS == Some(<<Run("A", 100)>>)
ImgT == Some(<<Run("B", 100)>>)

\* frames the scanner delivers (canvas.toDataURL, never empty)
FrameImages == {ImgA, ImgT}

\* what the admin submits on the add-student page: the validated form data
\* and the page's captured image (null when none was captured)
FormSubmissions ==
    { [id |-> <<"A">>, name |-> "Ann", branch |-> "Civil Engg.", image |-> ImgA],
      [id |-> <<" ", "a">>, name |-> "Bob", branch |-> "Staff", image |-> ImgS],
      [id |-> <<"b">>, name |-> "Bob", branch |-> "Staff", image |-> Undefined] }

\* ids typed into the manual field / returned as idNumber by the extraction
RawIds == { <<"a">>, <<" ", "A", " ">>, <<"B">>, <<" ">> }

\* extraction results: an idNumber, or none
ExtractionResults == {Some(r) : r \in RawIds} \cup {Undefined}

-----------------------------------------------------------------------------
(* JSON round trip of a Date: toISOString() keeps the milliseconds *)

toISOString(t) == [sec |-> t \div 1000, ms |-> t % 1000]
parseDate(iso) == iso.sec * 1000 + iso.ms

\* JSON.stringify of an EntryLog, as localStorage keeps it
StoredLog(log) == [log EXCEPT !.timestamp = toISOString(log.timestamp)]

-----------------------------------------------------------------------------
(* Helpers of the scan page *)

NotFound == [def |-> FALSE]
Found(v) == [def |-> TRUE, val |-> v]

NormalizeId(id) == toLowerCase(trim(id))

\* Faulty variant: find without its test returns the first stored student
getStudentById_FirstStored(studs, id) ==
    IF studs = <<>> THEN NotFound ELSE Found(studs[1])

\* Faulty variant: the id looked up is trimmed but its case is kept
getStudentById_CaseKept(studs, id) ==
    LET trimmedId == trim(id)
        hits == {i \in 1..Len(studs) : NormalizeId(studs[i].id) = trimmedId}
    IN IF hits = {} THEN NotFound
       ELSE Found(studs[CHOOSE i \in hits : \A j \in hits : i <= j])

getStudentById(studs, id) ==
    LET trimmedId == NormalizeId(id)
        hits == {i \in 1..Len(studs) : NormalizeId(studs[i].id) = trimmedId}
    IN IF hits = {} THEN NotFound
       ELSE Found(studs[CHOOSE i \in hits : \A j \in hits : i <= j])

\* Faulty variant: the sort is forgotten, the first stored log is returned
getLastLogForStudent_FirstStored(logs, studentId) ==
    LET trimmedStudentId == NormalizeId(studentId)
        mine == {i \in 1..Len(logs) : NormalizeId(logs[i].studentId) = trimmedStudentId}
    IN IF mine = {} THEN NotFound
       ELSE LET i == CHOOSE i \in mine : \A j \in mine : i <= j
            IN Found([logs[i] EXCEPT !.timestamp = parseDate(logs[i].timestamp)])

\* Faulty variant: the filter on the student is forgotten
getLastLogForStudent_AnyStudent(logs, studentId) ==
    LET mine == 1..Len(logs)
        newest == {i \in mine : \A j \in mine :
                      parseDate(logs[i].timestamp) >= parseDate(logs[j].timestamp)}
    IN IF mine = {} THEN NotFound
       ELSE LET i == CHOOSE i \in newest : \A j \in newest : i <= j
            IN Found([logs[i] EXCEPT !.timestamp = parseDate(logs[i].timestamp)])

\* filter, revive the timestamps, sort newest first (the sort is stable), take
\* the first
\* Faulty variant: the store is taken to be in order of time, the student's
\* last stored log is returned
getLastLogForStudent_LastStored(logs, studentId) ==
    LET trimmedStudentId == NormalizeId(studentId)
        mine == {i \in 1..Len(logs) : NormalizeId(logs[i].studentId) = trimmedStudentId}
    IN IF mine = {} THEN NotFound
       ELSE LET i == CHOOSE i \in mine : \A j \in mine : j <= i
            IN Found([logs[i] EXCEPT !.timestamp = parseDate(logs[i].timestamp)])

getLastLogForStudent(logs, studentId) ==
    LET trimmedStudentId == NormalizeId(studentId)
        mine == {i \in 1..Len(logs) : NormalizeId(logs[i].studentId) = trimmedStudentId}
        newest == {i \in mine : \A j \in mine :
                      parseDate(logs[i].timestamp) >= parseDate(logs[j].timestamp)}
    IN IF mine = {} THEN NotFound
       ELSE LET i == CHOOSE i \in newest : \A j \in newest : i <= j
            IN Found([logs[i] EXCEPT !.timestamp = parseDate(logs[i].timestamp)])

\* Faulty variant: a scan judged a mismatch is not persisted
saveEntryLog_SkipMismatch(logs, log) ==
    IF log.imageMatch = "false" THEN logs ELSE Append(logs, StoredLog(log))

saveEntryLog(logs, log) == Append(logs, StoredLog(log))

-----------------------------------------------------------------------------
(* The admin dashboard *)

\* the figures of the dashboard for the two stores as read, `today` being
\* local midnight: the logs are revived, sorted by time ascending (the sort
\* is stable) and written one after the other into studentStatus under
\* their studentId
getDashboardStats(studs, logs, today) ==
    LET time(i) == parseDate(logs[i].timestamp)
        keys == {logs[i].studentId : i \in 1..Len(logs)}
        under(k) == {i \in 1..Len(logs) : logs[i].studentId = k}
        written(k) ==
            CHOOSE i \in under(k) :
                \A j \in under(k) :
                    time(j) < time(i) \/ (time(j) = time(i) /\ j <= i)
        studentStatus == [k \in keys |-> logs[written(k)].type]
    IN [totalStudents |-> Len(studs),
        entriesToday |->
            Cardinality({i \in 1..Len(logs) :
                            time(i) >= today /\ logs[i].type = "Entry"}),
        currentlyInside |->
            Cardinality({k \in keys : studentStatus[k] = "Entry"})]

-----------------------------------------------------------------------------
(* sharedProcessLogic: the try block, as a function of what it reads *)

SuccessDisplayMs == 3000
ErrorDisplayMs == 5000

NullResult == [isNull |-> TRUE]
\* no direct call of a read helper has returned
NoLookup == [fn |-> "none"]
NoTimeout == 0

\* `Student with ID ${studentId.toUpperCase()} not found. Please register first.`
NotRegisteredMessage(studentId) ==
    [kind |-> "NotRegistered", id |-> toUpperCase(studentId)]

\* Faulty variant: Math.floor instead of Math.ceil
RateLimitedMessage_Floor(timeDiffMs, name) ==
    [kind |-> "RateLimited",
     wait |-> (MIN_LIBRARY_INTERVAL_SECONDS * 1000 - timeDiffMs) \div 1000,
     name |-> name]

\* `Please wait ${Math.ceil(MIN_LIBRARY_INTERVAL_SECONDS - timeDiffSeconds)}s
\*  before processing ${student.name} again.`
RateLimitedMessage(timeDiffMs, name) ==
    [kind |-> "RateLimited",
     wait |-> CeilDiv(MIN_LIBRARY_INTERVAL_SECONDS * 1000 - timeDiffMs, 1000),
     name |-> name]

ExtractionFailedMessage == [kind |-> "ExtractionFailed"]
AiCallFailedMessage == [kind |-> "AiCallFailed"]

\* Faulty variant: the milliseconds are compared with the seconds
RateLimited_Milliseconds(timeDiffMs) == timeDiffMs < MIN_LIBRARY_INTERVAL_SECONDS

\* Faulty variant: <= instead of <
RateLimited_Inclusive(timeDiffMs) == timeDiffMs <= MIN_LIBRARY_INTERVAL_SECONDS * 1000

\* Faulty variant: a clock reading before the last log is let through
RateLimited_ForwardOnly(timeDiffMs) ==
    timeDiffMs >= 0 /\ timeDiffMs < MIN_LIBRARY_INTERVAL_SECONDS * 1000

\* timeDiffSeconds < MIN_LIBRARY_INTERVAL_SECONDS, timeDiffSeconds being
\* timeDiffMs / 1000
RateLimited(timeDiffMs) == timeDiffMs < MIN_LIBRARY_INTERVAL_SECONDS * 1000

NextAction(lastType) == IF lastType = "Entry" THEN "Exit" ELSE "Entry"

ImageMatchResult(student, source, scannedImageUri) ==
    IF source = "scan" /\ Truthy(scannedImageUri) /\ Truthy(student.idCardImageUri)
    THEN compareImagesRoughly(student.idCardImageUri, scannedImageUri)
    ELSE "undefined"

\* String(n) of a non-negative integer: its decimal digits
DigitChars == <<"0", "1", "2", "3", "4", "5", "6", "7", "8", "9">>

RECURSIVE Digits(_)
Digits(n) ==
    IF n < 10 THEN <<DigitChars[n + 1]>>
    ELSE Append(Digits(n \div 10), DigitChars[(n % 10) + 1])

\* Faulty variant: the id is made of the time alone
LogId_TimeOnly(now, studentId) ==
    <<"l", "o", "g", "_">> \o Digits(now)

\* `log_${now.getTime()}_${student.id}`
LogId(now, studentId) ==
    <<"l", "o", "g", "_">> \o Digits(now) \o <<"_">> \o studentId

\* Faulty variant: the name and the branch of the new log are copied from
\* the student's last log when there is one
ProcessOutcome_SnapshotFromLastLog(studs, logs, studentId, source, scannedImageUri, now) ==
    LET found == getStudentById(studs, studentId)
    IN IF ~found.def
       THEN [thrown |-> TRUE, message |-> NotRegisteredMessage(studentId),
             student |-> NotFound, imageMatch |-> "undefined"]
       ELSE
         LET student == found.val
             imageMatchResult == ImageMatchResult(student, source, scannedImageUri)
             lastLog == getLastLogForStudent(logs, studentId)
             timeDiffMs == now - lastLog.val.timestamp
         IN IF lastLog.def /\ RateLimited(timeDiffMs)
            THEN [thrown |-> TRUE,
                  message |-> RateLimitedMessage(timeDiffMs, student.name),
                  student |-> found, imageMatch |-> imageMatchResult]
            ELSE [thrown |-> FALSE,
                  student |-> found, imageMatch |-> imageMatchResult,
                  newLog |-> [id |-> LogId(now, student.id),
                              studentId |-> student.id,
                              studentName |-> IF lastLog.def THEN lastLog.val.studentName
                                              ELSE student.name,
                              branch |-> IF lastLog.def THEN lastLog.val.branch
                                         ELSE student.branch,
                              timestamp |-> now,
                              type |-> IF lastLog.def THEN NextAction(lastLog.val.type)
                                       ELSE "Entry",
                              imageMatch |-> imageMatchResult]]

\* [thrown, message, student (found or not), imageMatch, newLog]
ProcessOutcome(studs, logs, studentId, source, scannedImageUri, now) ==
    LET found == getStudentById(studs, studentId)
    IN IF ~found.def
       THEN [thrown |-> TRUE, message |-> NotRegisteredMessage(studentId),
             student |-> NotFound, imageMatch |-> "undefined"]
       ELSE
         LET student == found.val
             imageMatchResult == ImageMatchResult(student, source, scannedImageUri)
             lastLog == getLastLogForStudent(logs, studentId)
             timeDiffMs == now - lastLog.val.timestamp
         IN IF lastLog.def /\ RateLimited(timeDiffMs)
            THEN [thrown |-> TRUE,
                  message |-> RateLimitedMessage(timeDiffMs, student.name),
                  student |-> found, imageMatch |-> imageMatchResult]
            ELSE [thrown |-> FALSE,
                  student |-> found, imageMatch |-> imageMatchResult,
                  newLog |-> [id |-> LogId(now, student.id),
                              studentId |-> student.id,
                              studentName |-> student.name,
                              branch |-> student.branch,
                              timestamp |-> now,
                              type |-> IF lastLog.def THEN NextAction(lastLog.val.type)
                                       ELSE "Entry",
                              imageMatch |-> imageMatchResult]]

\* the result card: resultState of the try block or of the catch block
ResultState(o, studentId, source, scannedImageUri, now) ==
    [student |-> IF o.student.def THEN o.student.val
                 ELSE [id |-> toUpperCase(studentId), name |-> "Not Registered"],
     log |-> IF o.thrown
             THEN [type |-> "Error", timestamp |-> now, message |-> o.message]
             ELSE o.newLog,
     scannedImageUri |-> IF source = "scan" THEN scannedImageUri ELSE Undefined,
     imageMatch |-> o.imageMatch,
     source |-> source]

\* the log store after the try block
LogsAfter(o, logs) == IF o.thrown THEN logs ELSE saveEntryLog(logs, o.newLog)

\* the log store after the try block when localStorage.setItem throws (the
\* quota is exceeded): the catch block of saveEntryLog writes to the console
\* and returns, the store keeps what it had
LogsAfterFailedWrite(o, logs) == logs

\* the whole handler; it does not suspend, so it is one step.  setItemThrows
\* tells whether the write of saveEntryLog, if one is made, fails
sharedProcessLogicWriting(setItemThrows, studentId, source, scannedImageUri, now) ==
    LET o == ProcessOutcome(students, entryLogs, studentId, source, scannedImageUri, now)
    IN /\ isProcessing' = TRUE
       /\ scanSessionError' = "null"
       /\ capturedImageUri' = IF source = "scan" THEN scannedImageUri ELSE Undefined
       /\ entryLogs' = IF setItemThrows THEN LogsAfterFailedWrite(o, entryLogs)
                       ELSE LogsAfter(o, entryLogs)
       /\ lastScanResult' = ResultState(o, studentId, source, scannedImageUri, now)
       /\ isDetecting' = FALSE
       /\ isExtracting' = FALSE
       /\ processingTimeoutRef' = IF o.thrown THEN ErrorDisplayMs ELSE SuccessDisplayMs
       /\ UNCHANGED students

\* the handler while localStorage accepts the write
sharedProcessLogic(studentId, source, scannedImageUri, now) ==
    sharedProcessLogicWriting(FALSE, studentId, source, scannedImageUri, now)

-----------------------------------------------------------------------------
(* The scan page *)

RemoveAt(q, i) == SubSeq(q, 1, i - 1) \o SubSeq(q, i + 1, Len(q))

\* the catch block of processCapturedImage
CaughtResult(imageDataUri, message, now) ==
    [student |-> [id |-> <<"Unknown">>, name |-> "Processing Failed"],
     log |-> [type |-> "Error", timestamp |-> now, message |-> message],
     scannedImageUri |-> imageDataUri,
     imageMatch |-> "undefined",
     source |-> "scan"]

ProcessingFailed(i, message, now) ==
    /\ isDetecting' = FALSE
    /\ isExtracting' = FALSE
    /\ lastScanResult' = CaughtResult(inFlight[i].image, message, now)
    /\ processingTimeoutRef' = ErrorDisplayMs
    /\ inFlight' = RemoveAt(inFlight, i)
    /\ UNCHANGED <<storeVars, callVars, adminVars, isProcessing, scanSessionError,
                   capturedImageUri, lastProcessedImage,
                   detectionCoolDown, coolDownTimers>>

\* the scanner's interval delivers a frame (only while its isProcessing prop is
\* false); processCapturedImage runs up to `await detectIdCard`
ProcessCapturedImage(imageDataUri) ==
    /\ ~isProcessing
    /\ ~detectionCoolDown
    /\ ~(Truthy(lastProcessedImage)
         /\ compareImagesRoughly(imageDataUri, lastProcessedImage) = "true")
    /\ Len(inFlight) < MaxInFlight
    /\ isProcessing' = TRUE
    /\ isDetecting' = TRUE
    /\ isExtracting' = FALSE
    /\ scanSessionError' = "null"
    /\ lastScanResult' = NullResult
    /\ capturedImageUri' = imageDataUri
    /\ inFlight' = Append(inFlight, [image |-> imageDataUri, phase |-> "detect"])
    /\ UNCHANGED <<storeVars, callVars, adminVars, processingTimeoutRef,
                   lastProcessedImage, detectionCoolDown, coolDownTimers>>

\* detectIdCard resolved with isIdCard = true: on to `await extractBarcodeData`
DetectedIdCard(i) ==
    /\ inFlight[i].phase = "detect"
    /\ isDetecting' = FALSE
    /\ isExtracting' = TRUE
    /\ inFlight' = [inFlight EXCEPT ![i].phase = "extract"]
    /\ UNCHANGED <<storeVars, callVars, adminVars, isProcessing, scanSessionError,
                   lastScanResult, capturedImageUri,
                   processingTimeoutRef, lastProcessedImage, detectionCoolDown,
                   coolDownTimers>>

\* Faulty variant: the early return is missing, the frame goes on to the
\* extraction while the cooldown runs
DetectedNoCard_NoReturn(i) ==
    /\ inFlight[i].phase = "detect"
    /\ coolDownTimers < MaxCoolDownTimers
    /\ isDetecting' = FALSE
    /\ isExtracting' = TRUE
    /\ capturedImageUri' = Undefined
    /\ detectionCoolDown' = TRUE
    /\ coolDownTimers' = coolDownTimers + 1
    /\ inFlight' = [inFlight EXCEPT ![i].phase = "extract"]
    /\ UNCHANGED <<storeVars, callVars, adminVars, isProcessing,
                   scanSessionError, lastScanResult,
                   processingTimeoutRef, lastProcessedImage>>

\* detectIdCard resolved with no result or isIdCard = false: cooldown
DetectedNoCard(i) ==
    /\ inFlight[i].phase = "detect"
    /\ coolDownTimers < MaxCoolDownTimers
    /\ isDetecting' = FALSE
    /\ capturedImageUri' = Undefined
    /\ detectionCoolDown' = TRUE
    /\ coolDownTimers' = coolDownTimers + 1
    /\ inFlight' = RemoveAt(inFlight, i)
    /\ UNCHANGED <<storeVars, callVars, adminVars, isProcessing, isExtracting,
                   scanSessionError, lastScanResult,
                   processingTimeoutRef, lastProcessedImage>>

\* detectIdCard or extractBarcodeData rejected
AiCallFailed(i, now) ==
    ProcessingFailed(i, AiCallFailedMessage, now)

\* Faulty variant: the test for a blank idNumber is missing, the blank is
\* trimmed and handed on to sharedProcessLogic
ExtractedNothing_BlankForwarded(i, extractionResult, now) ==
    /\ inFlight[i].phase = "extract"
    /\ ~Truthy(extractionResult) \/ trim(extractionResult.str) = <<>>
    /\ IF Truthy(extractionResult)
       THEN /\ sharedProcessLogic(NormalizeId(extractionResult.str), "scan",
                                  inFlight[i].image, now)
            /\ lastProcessedImage' = inFlight[i].image
            /\ inFlight' = RemoveAt(inFlight, i)
            /\ UNCHANGED <<callVars, adminVars, detectionCoolDown, coolDownTimers>>
       ELSE ProcessingFailed(i, ExtractionFailedMessage, now)

\* extractBarcodeData resolved without a usable idNumber
ExtractedNothing(i, extractionResult, now) ==
    /\ inFlight[i].phase = "extract"
    /\ ~Truthy(extractionResult) \/ trim(extractionResult.str) = <<>>
    /\ ProcessingFailed(i, ExtractionFailedMessage, now)

\* extractBarcodeData resolved with an idNumber: sharedProcessLogic, then
\* setLastProcessedImage
ExtractedId(i, extractionResult, now) ==
    /\ inFlight[i].phase = "extract"
    /\ Truthy(extractionResult) /\ trim(extractionResult.str) # <<>>
    /\ Len(entryLogs) < MaxLogs
    /\ sharedProcessLogic(NormalizeId(extractionResult.str), "scan",
                          inFlight[i].image, now)
    /\ lastProcessedImage' = inFlight[i].image
    /\ inFlight' = RemoveAt(inFlight, i)
    /\ UNCHANGED <<callVars, adminVars, detectionCoolDown, coolDownTimers>>

\* manualStudentId, the text of the manual field, is whatever the user typed
\* before submitting (the field is editable while isProcessing is false, which
\* the handler requires anyway); sharedProcessLogic clears it, so it is an
\* input of the step and no variable
handleManualSubmit(manualStudentId, now) ==
    LET trimmedId == NormalizeId(manualStudentId)
    IN /\ trimmedId # <<>>
       /\ ~isProcessing
       /\ Len(entryLogs) < MaxLogs
       /\ sharedProcessLogic(trimmedId, "manual", Undefined, now)
       /\ UNCHANGED <<callVars, adminVars, lastProcessedImage, detectionCoolDown,
                      coolDownTimers, inFlight>>

\* the same submission while localStorage refuses the write
handleManualSubmitQuotaExceeded(manualStudentId, now) ==
    LET trimmedId == NormalizeId(manualStudentId)
    IN /\ trimmedId # <<>>
       /\ ~isProcessing
       /\ sharedProcessLogicWriting(TRUE, trimmedId, "manual", Undefined, now)
       /\ UNCHANGED <<callVars, adminVars, lastProcessedImage, detectionCoolDown,
                      coolDownTimers, inFlight>>

\* the scanner calls its onScanError prop, which is handleScannerError
onScanError(message) ==
    /\ scanSessionError' = message
    /\ isProcessing' = FALSE
    /\ isDetecting' = FALSE
    /\ isExtracting' = FALSE
    /\ UNCHANGED <<storeVars, cmpVars, readVars, formVars, stations, adminVars,
                   editImageVars, editingBranch,
                   lastScanResult, capturedImageUri, processingTimeoutRef,
                   lastProcessedImage, detectionCoolDown, coolDownTimers,
                   inFlight>>

\* handleScannerError as the page sees it, whatever the scanner does next
handleScannerError ==
    /\ onScanError("ScannerError")
    /\ UNCHANGED scannerVars

\* the dismiss buttons: on the result card and on the session error alert
clearStatus ==
    /\ ~isProcessing
    /\ lastScanResult # NullResult \/ scanSessionError # "null"
    /\ scanSessionError' = "null"
    /\ lastScanResult' = NullResult
    /\ capturedImageUri' = Undefined
    /\ processingTimeoutRef' = NoTimeout
    /\ isProcessing' = FALSE
    /\ isDetecting' = FALSE
    /\ isExtracting' = FALSE
    /\ detectionCoolDown' = FALSE
    /\ UNCHANGED <<storeVars, callVars, adminVars, lastProcessedImage,
                   coolDownTimers, inFlight>>

\* variant: the callback frees the page and leaves the card on screen
ProcessingTimeout_CardKept ==
    /\ processingTimeoutRef # NoTimeout
    /\ isProcessing' = FALSE
    /\ processingTimeoutRef' = NoTimeout
    /\ UNCHANGED <<storeVars, callVars, adminVars, isDetecting, isExtracting,
                   scanSessionError, lastProcessedImage, lastScanResult,
                   capturedImageUri, detectionCoolDown, coolDownTimers,
                   inFlight>>

\* the callback of processingTimeoutRef fires
ProcessingTimeout ==
    /\ processingTimeoutRef # NoTimeout
    /\ isProcessing' = FALSE
    /\ lastScanResult' = NullResult
    /\ capturedImageUri' = Undefined
    /\ processingTimeoutRef' = NoTimeout
    /\ UNCHANGED <<storeVars, callVars, adminVars, isDetecting, isExtracting,
                   scanSessionError, lastProcessedImage,
                   detectionCoolDown, coolDownTimers, inFlight>>

\* the callback of the cooldown fires
CoolDownFinished ==
    /\ coolDownTimers > 0
    /\ coolDownTimers' = coolDownTimers - 1
    /\ detectionCoolDown' = FALSE
    /\ isProcessing' = FALSE
    /\ UNCHANGED <<storeVars, callVars, adminVars, isDetecting, isExtracting,
                   scanSessionError, lastScanResult, capturedImageUri, processingTimeoutRef, lastProcessedImage,
                   inFlight>>

-----------------------------------------------------------------------------
(* BarcodeScanner in auto-scan mode, as the scan page mounts it *)

\* what no step of the scanner alone touches
notScanner == <<storeVars, pageVars, cmpVars, readVars, formVars, stations,
                adminVars, editImageVars, editingBranch>>

\* variant: the cleanup releases the camera and leaves the interval running
cleanupCamera_IntervalKept ==
    IF cleanupCalledRef
    THEN UNCHANGED <<isActive, isStarting, scanIntervalRef, streamRef,
                     cleanupCalledRef>>
    ELSE /\ cleanupCalledRef' = TRUE
         /\ streamRef' = FALSE
         /\ isActive' = FALSE
         /\ isStarting' = FALSE
         /\ UNCHANGED scanIntervalRef

\* cleanupCamera: skipped when a cleanup ran in the last 100 ms; otherwise
\* clears the interval, stops the tracks, drops the stream, resets the state
cleanupCamera ==
    IF cleanupCalledRef
    THEN UNCHANGED <<isActive, isStarting, scanIntervalRef, streamRef,
                     cleanupCalledRef>>
    ELSE /\ cleanupCalledRef' = TRUE
         /\ scanIntervalRef' = FALSE
         /\ streamRef' = FALSE
         /\ isActive' = FALSE
         /\ isStarting' = FALSE

\* the timer that cleanupCamera leaves behind re-arms the cleanup
CleanupRearmed ==
    /\ cleanupCalledRef
    /\ cleanupCalledRef' = FALSE
    /\ UNCHANGED <<notScanner, isActive, isStarting, scanIntervalRef,
                   streamRef, scannerMounted>>

\* the Start Camera button: startCamera up to `await getUserMedia`
startCamera ==
    /\ scannerMounted
    /\ ~isStarting
    /\ ~isActive
    /\ isStarting' = TRUE
    /\ cleanupCalledRef' = FALSE
    /\ UNCHANGED <<notScanner, isActive, scanIntervalRef, streamRef,
                   scannerMounted>>

\* getUserMedia and video.play() resolved; the play event runs
\* handleVideoPlay. On an unmounted scanner the stream is taken all the same
\* and the state setters do nothing.
handleVideoPlay ==
    /\ isStarting
    /\ streamRef' = TRUE
    /\ cleanupCalledRef' = FALSE
    /\ isStarting' = FALSE
    /\ isActive' = scannerMounted
    /\ UNCHANGED <<notScanner, scanIntervalRef, scannerMounted>>

\* getUserMedia or video.play() rejected: the catch of startCamera
startCameraFailed ==
    /\ scannerMounted
    /\ isStarting
    /\ onScanError("Failed to access camera.")
    /\ cleanupCamera
    /\ UNCHANGED scannerMounted

\* the auto-scan effect after a render: sets the interval when the scanner
\* is active and the page is not busy, clears it otherwise
AutoScanEffect ==
    /\ scannerMounted
    /\ scanIntervalRef' = (isActive /\ ~isProcessing /\ ~isStarting)
    /\ scanIntervalRef' # scanIntervalRef
    /\ UNCHANGED <<notScanner, isActive, isStarting, streamRef,
                   cleanupCalledRef, scannerMounted>>

\* the interval fires, captureFrame returns a frame, onScanSuccess is called
IntervalDelivers(imageDataUri) ==
    /\ scanIntervalRef
    /\ streamRef
    /\ ProcessCapturedImage(imageDataUri)

\* the interval fires and captureFrame fails on the canvas
captureFrameFailed ==
    /\ scanIntervalRef
    /\ streamRef
    /\ onScanError("Failed to capture frame")
    /\ cleanupCamera
    /\ UNCHANGED scannerMounted

\* the video element reports an error
handleVideoError ==
    /\ scannerMounted
    /\ streamRef
    /\ onScanError("An unknown video error occurred.")
    /\ isActive' = FALSE
    /\ isStarting' = FALSE
    /\ IF cleanupCalledRef
       THEN UNCHANGED <<scanIntervalRef, streamRef, cleanupCalledRef>>
       ELSE /\ cleanupCalledRef' = TRUE
            /\ scanIntervalRef' = FALSE
            /\ streamRef' = FALSE
    /\ UNCHANGED scannerMounted

\* the scan page is left: the effect cleanups clear the interval, clean the
\* camera up and clear the page's timeout; what is awaited goes on, and its
\* state updates are no longer rendered
ScannerUnmount ==
    /\ scannerMounted
    /\ scannerMounted' = FALSE
    /\ scanIntervalRef' = FALSE
    /\ IF cleanupCalledRef
       THEN UNCHANGED <<isActive, isStarting, streamRef, cleanupCalledRef>>
       ELSE /\ cleanupCalledRef' = TRUE
            /\ streamRef' = FALSE
            /\ isActive' = FALSE
            /\ isStarting' = FALSE
    /\ processingTimeoutRef' = NoTimeout
    /\ UNCHANGED <<storeVars, cmpVars, readVars, formVars, stations, adminVars,
                   editImageVars, editingBranch,
                   isProcessing, isDetecting, isExtracting, scanSessionError,
                   lastScanResult, capturedImageUri, lastProcessedImage,
                   detectionCoolDown, coolDownTimers, inFlight>>

-----------------------------------------------------------------------------
(* Two scan stations: two scan pages, each in its own tab or window, on the *)
(* same localStorage.  A page runs sharedProcessLogic without suspending,   *)
(* but nothing orders its accesses to localStorage with those of the other  *)
(* page, so the handler is cut at its accesses to the log store: the read   *)
(* of getLastLogForStudent, the getItem and the setItem of saveEntryLog.    *)

Stations == {1, 2}

IdleStation == [phase |-> "idle"]

InitStations == stations = [s \in Stations |-> IdleStation]

\* the scanner as mounted: camera off, no interval
InitScanner ==
    /\ isActive = FALSE
    /\ isStarting = FALSE
    /\ scanIntervalRef = FALSE
    /\ streamRef = FALSE
    /\ cleanupCalledRef = FALSE
    /\ scannerMounted = TRUE

\* logs the calls that have decided to write have not written yet
PendingWrites ==
    Cardinality({s \in Stations : stations[s].phase \in {"decided", "saving"}})

\* handleManualSubmit on station s, up to the call of saveEntryLog: the
\* student and its last log are read and the new log is built, or the catch
\* block shows the error
StationSubmit(s, manualStudentId, now) ==
    LET trimmedId == NormalizeId(manualStudentId)
        o == ProcessOutcome(students, entryLogs, trimmedId, "manual", Undefined, now)
    IN /\ trimmedId # <<>>
       /\ stations[s].phase = "idle"
       /\ Len(entryLogs) + PendingWrites < MaxLogs
       /\ stations' =
             [stations EXCEPT ![s] =
                 IF o.thrown
                 THEN [phase |-> "shown", result |-> "Error"]
                 ELSE [phase |-> "decided",
                       studentId |-> trimmedId,
                       lastLog |-> getLastLogForStudent(entryLogs, trimmedId),
                       newLog |-> o.newLog]]
       /\ UNCHANGED <<storeVars, pageVars, cmpVars, readVars, formVars, adminVars,
                   scannerVars, editImageVars, editingBranch>>

\* saveEntryLog on station s: JSON.parse(localStorage.getItem('entryLogs'))
StationGetItem(s) ==
    /\ stations[s].phase = "decided"
    /\ stations' = [stations EXCEPT ![s] =
                       [phase |-> "saving",
                        studentId |-> stations[s].studentId,
                        lastLog |-> stations[s].lastLog,
                        newLog |-> stations[s].newLog,
                        logs |-> entryLogs]]
    /\ UNCHANGED <<storeVars, pageVars, cmpVars, readVars, formVars, adminVars,
                   scannerVars, editImageVars, editingBranch>>

\* Faulty variant, which is how the race would be closed: the last log is
\* read again from the array that is written, and the type follows it
StationSetItem_Recheck(s) ==
    LET lastLog == getLastLogForStudent(stations[s].logs, stations[s].studentId)
        newLog == [stations[s].newLog EXCEPT
                      !.type = IF lastLog.def THEN NextAction(lastLog.val.type)
                               ELSE "Entry"]
    IN /\ stations[s].phase = "saving"
       /\ entryLogs' = saveEntryLog(stations[s].logs, newLog)
       /\ stations' = [stations EXCEPT ![s] =
                          [phase |-> "shown",
                           result |-> newLog.type,
                           studentId |-> stations[s].studentId,
                           lastLog |-> stations[s].lastLog,
                           newLog |-> newLog]]
       /\ UNCHANGED <<students, pageVars, cmpVars, readVars, formVars, adminVars,
                   scannerVars, editImageVars, editingBranch>>

\* saveEntryLog on station s: logs.push(log) and localStorage.setItem, then
\* the success result and the display timeout
StationSetItem(s) ==
    /\ stations[s].phase = "saving"
    /\ entryLogs' = saveEntryLog(stations[s].logs, stations[s].newLog)
    /\ stations' = [stations EXCEPT ![s] =
                       [phase |-> "shown",
                        result |-> stations[s].newLog.type,
                        studentId |-> stations[s].studentId,
                        lastLog |-> stations[s].lastLog,
                        newLog |-> stations[s].newLog]]
    /\ UNCHANGED <<students, pageVars, cmpVars, readVars, formVars, adminVars,
                   scannerVars, editImageVars, editingBranch>>

\* the display timeout of station s fires: isProcessing is false again
StationTimeout(s) ==
    /\ stations[s].phase = "shown"
    /\ stations' = [stations EXCEPT ![s] = IdleStation]
    /\ UNCHANGED <<storeVars, pageVars, cmpVars, readVars, formVars, adminVars,
                   scannerVars, editImageVars, editingBranch>>

-----------------------------------------------------------------------------
(* The add-student page *)

\* the record handleFormSubmit stores
NewStudent(formData, pageImage) ==
    [id |-> trim(formData.id),
     name |-> formData.name,
     branch |-> formData.branch,
     idCardImageUri |-> IF Truthy(pageImage) THEN pageImage ELSE Undefined]

handleFormSubmit(formData, pageImage) ==
    LET existingStudent ==
            \E i \in 1..Len(students) :
                NormalizeId(students[i].id) = NormalizeId(formData.id)
        newStudent == NewStudent(formData, pageImage)
    IN IF existingStudent
       THEN UNCHANGED vars
       ELSE /\ Len(students) < MaxStudents
            /\ students' = Append(students, newStudent)
            /\ UNCHANGED <<entryLogs, pageVars, callVars, adminVars>>

-----------------------------------------------------------------------------
(* The manage-students page (AdminManageStudentsPage): it works on its own  *)
(* copy of the student list, read from localStorage when the page mounts    *)

\* what the admin submits in the edit dialog: the validated form data
EditSubmissions ==
    { [id |-> <<"B", " ">>, name |-> "Bea", branch |-> "Mech. Engg."] }

\* useState initial values and the mount effect: setStudents(getStudents())
ManageStudentsPageMount ==
    /\ pageStudents' = students
    /\ studentToEdit' = NotFound
    /\ isEditDialogOpen' = FALSE
    /\ editModeCapturedImageUri' = Undefined
    /\ UNCHANGED <<storeVars, pageVars, callVars, libraryBranches>>

\* Faulty variant: the logs of the deleted student are deleted with it
handleDeleteStudent_Cascading(studentId) ==
    LET studentToDelete == \E i \in 1..Len(pageStudents) : pageStudents[i].id = studentId
        updatedStudents == SelectSeq(pageStudents, LAMBDA student : student.id # studentId)
    IN /\ ~isEditDialogOpen
       /\ IF ~studentToDelete
          THEN UNCHANGED vars
          ELSE /\ students' = updatedStudents
               /\ pageStudents' = updatedStudents
               /\ entryLogs' = SelectSeq(entryLogs, LAMBDA log : log.studentId # studentId)
               /\ UNCHANGED <<pageVars, callVars, studentToEdit,
                              isEditDialogOpen, editModeCapturedImageUri,
                              libraryBranches>>

\* the delete button of a table row; the table is not reachable while the
\* edit dialog, which is modal, is open
handleDeleteStudent(studentId) ==
    LET studentToDelete == \E i \in 1..Len(pageStudents) : pageStudents[i].id = studentId
        updatedStudents == SelectSeq(pageStudents, LAMBDA student : student.id # studentId)
    IN /\ ~isEditDialogOpen
       /\ IF ~studentToDelete
          THEN UNCHANGED vars
          ELSE /\ students' = updatedStudents
               /\ pageStudents' = updatedStudents
               /\ UNCHANGED <<entryLogs, pageVars, callVars, studentToEdit,
                              isEditDialogOpen, editModeCapturedImageUri,
                              libraryBranches>>

handleEditClick(student) ==
    /\ ~isEditDialogOpen
    /\ studentToEdit' = Found(student)
    /\ editModeCapturedImageUri' = IF Truthy(student.idCardImageUri)
                                   THEN student.idCardImageUri ELSE Undefined
    /\ isEditDialogOpen' = TRUE
    /\ UNCHANGED <<storeVars, pageVars, callVars, pageStudents, libraryBranches>>

\* the dialog is dismissed: onOpenChange(false), then the effect on
\* isEditDialogOpen resets the image state of the dialog
CloseEditDialog ==
    /\ isEditDialogOpen
    /\ isEditDialogOpen' = FALSE
    /\ editModeCapturedImageUri' = Undefined
    /\ isEditModeScanning' = FALSE
    /\ isEditModeExtracting' = FALSE
    /\ editModeExtractionError' = "null"
    /\ UNCHANGED <<storeVars, pageVars, cmpVars, readVars, formVars, stations,
                   scannerVars, editingBranch, pageStudents, studentToEdit, libraryBranches>>

\* the Re-Scan button of the dialog: the scanner takes the place of the image
EditRescanClick ==
    /\ isEditDialogOpen
    /\ ~isEditModeScanning
    /\ ~isEditModeExtracting
    /\ isEditModeScanning' = TRUE
    /\ editModeExtractionError' = "null"
    /\ UNCHANGED <<storeVars, pageVars, cmpVars, readVars, formVars, stations,
                   scannerVars, editingBranch, adminVars, isEditModeExtracting>>

\* processEditImage up to its await: without an image it reports that and
\* returns, with one it starts adminExtractBarcodeData
processEditImage(imageDataUri) ==
    /\ isEditModeScanning' = FALSE
    /\ IF ~Truthy(imageDataUri)
       THEN /\ editModeExtractionError' = "No image captured or selected."
            /\ isEditModeExtracting' = FALSE
       ELSE /\ editModeExtractionError' = "null"
            /\ isEditModeExtracting' = TRUE

\* the Stop Scanning button: handleManualStopClick of the scanner captures
\* a frame (null when the video has no data yet), passes it to
\* setCapturedImageUri, cleans the camera up (which passes null) and calls
\* onManualStop with the frame, which is handleEditManualStop
handleEditManualStop(imageDataUri) ==
    /\ isEditDialogOpen
    /\ isEditModeScanning
    /\ editModeCapturedImageUri' = imageDataUri
    /\ processEditImage(imageDataUri)
    /\ UNCHANGED <<storeVars, pageVars, cmpVars, readVars, formVars, stations,
                   scannerVars, editingBranch, pageStudents, studentToEdit, isEditDialogOpen,
                   libraryBranches>>

\* the scanner of the dialog reports an error: onScanError turns the scanner
\* view off, and cleanupCamera passes null to setCapturedImageUri
EditScannerError ==
    /\ isEditDialogOpen
    /\ isEditModeScanning
    /\ isEditModeScanning' = FALSE
    /\ editModeExtractionError' = "Scanner error"
    /\ editModeCapturedImageUri' = Undefined
    /\ UNCHANGED <<storeVars, pageVars, cmpVars, readVars, formVars, stations,
                   scannerVars, editingBranch, pageStudents, studentToEdit, isEditDialogOpen,
                   libraryBranches, isEditModeExtracting>>

\* the Upload button, disabled while the scanner is shown or an extraction
\* runs: the file is read, its data URI set and processed
handleEditFileUpload(result) ==
    /\ isEditDialogOpen
    /\ ~isEditModeScanning
    /\ ~isEditModeExtracting
    /\ editModeCapturedImageUri' = result
    /\ processEditImage(result)
    /\ UNCHANGED <<storeVars, pageVars, cmpVars, readVars, formVars, stations,
                   scannerVars, editingBranch, pageStudents, studentToEdit, isEditDialogOpen,
                   libraryBranches>>

\* adminExtractBarcodeData settles while the dialog waits for it: with a
\* result, or with none or an exception, which shows as an error text
EditExtractionSettled(extracted) ==
    /\ isEditModeExtracting
    /\ isEditModeExtracting' = FALSE
    /\ editModeExtractionError' =
           IF extracted /\ studentToEdit.def THEN editModeExtractionError
           ELSE "Could not extract details from the new image."
    /\ UNCHANGED <<storeVars, pageVars, cmpVars, readVars, formVars, stations,
                   scannerVars, editingBranch, adminVars, isEditModeScanning>>

\* the form lives in the dialog, so it is submitted only while that is open
handleEditSubmit(formData) ==
    /\ isEditDialogOpen
    /\ ~isEditModeScanning
    /\ ~isEditModeExtracting
    /\ IF ~studentToEdit.def
       THEN UNCHANGED vars
       ELSE
         LET conflictingStudent ==
                 \E i \in 1..Len(pageStudents) :
                     /\ NormalizeId(pageStudents[i].id) = NormalizeId(formData.id)
                     /\ pageStudents[i].id # studentToEdit.val.id
             updatedStudentData ==
                 [id |-> trim(formData.id),
                  name |-> formData.name,
                  branch |-> formData.branch,
                  idCardImageUri |-> IF Truthy(editModeCapturedImageUri)
                                     THEN editModeCapturedImageUri ELSE Undefined]
             updatedStudents ==
                 [i \in 1..Len(pageStudents) |->
                     IF pageStudents[i].id = studentToEdit.val.id
                     THEN updatedStudentData ELSE pageStudents[i]]
         IN IF conflictingStudent
            THEN UNCHANGED vars
            ELSE /\ students' = updatedStudents
                 /\ pageStudents' = updatedStudents
                 /\ isEditDialogOpen' = FALSE
                 /\ studentToEdit' = NotFound
                 /\ editModeCapturedImageUri' = Undefined
                 /\ editModeExtractionError' = "null"
                 /\ UNCHANGED <<entryLogs, pageVars, cmpVars, readVars, formVars,
                                stations, scannerVars, editingBranch,
                                isEditModeScanning,
                                isEditModeExtracting, libraryBranches>>

-----------------------------------------------------------------------------
(* The branches page.  Its state `branches` is loaded from the registry on  *)
(* mount and written back by every handler that changes it, and no other    *)
(* page writes the registry, so the two are one variable.                   *)

DEFAULT_BRANCHES ==
    << <<"C", "o", "m", "p", "u", "t", "e", "r", " ", "E", "n", "g", "g", ".">>,
       <<"E", "l", "e", "c", "t", "r", "o", "n", "i", "c", " ", "E", "n", "g", "g", ".">>,
       <<"C", "i", "v", "i", "l", " ", "E", "n", "g", "g", ".">>,
       <<"M", "e", "c", "h", "a", "n", "i", "c", "a", "l", " ", "E", "n", "g", "g", ".">>,
       <<"E", "l", "e", "c", "t", "r", "i", "c", "a", "l", " ", "E", "n", "g", "g", ".">>,
       <<"S", "t", "a", "f", "f">> >>

\* names typed into the new-branch field
NewBranchNames == { <<"L", "a", "w">>, <<" ", "s", "t", "a", "f", "f">>, <<" ">> }

handleAddBranch(newBranchName) ==
    IF trim(newBranchName) = <<>>
    THEN UNCHANGED vars
    ELSE IF \E i \in 1..Len(libraryBranches) :
                toLowerCase(libraryBranches[i]) = toLowerCase(trim(newBranchName))
    THEN UNCHANGED vars
    ELSE /\ libraryBranches' = Append(libraryBranches, trim(newBranchName))
         /\ UNCHANGED <<storeVars, pageVars, callVars, manageVars>>

\* the delete and edit buttons of the rows are rendered while no row is
\* being renamed
handleDeleteBranch(indexToDelete) ==
    /\ ~editingBranch.def
    /\ indexToDelete \in 1..Len(libraryBranches)
    /\ libraryBranches' = RemoveAt(libraryBranches, indexToDelete)
    /\ UNCHANGED <<storeVars, pageVars, callVars, manageVars>>

startEditing(index) ==
    /\ ~editingBranch.def
    /\ index \in 1..Len(libraryBranches)
    /\ editingBranch' = [def |-> TRUE, index |-> index,
                         name |-> libraryBranches[index]]
    /\ UNCHANGED <<storeVars, pageVars, cmpVars, readVars, formVars,
                   stations, scannerVars, editImageVars, manageVars,
                   libraryBranches>>

\* the input of the row being renamed
handleEditChange(value) ==
    /\ editingBranch.def
    /\ editingBranch' = [editingBranch EXCEPT !.name = value]
    /\ UNCHANGED <<storeVars, pageVars, cmpVars, readVars, formVars,
                   stations, scannerVars, editImageVars, manageVars,
                   libraryBranches>>

\* Faulty variant: the new name is not compared with the other branches
saveEdit_Unchecked ==
    /\ editingBranch.def
    /\ IF trim(editingBranch.name) = <<>>
       THEN UNCHANGED vars
       ELSE /\ libraryBranches' =
                   [libraryBranches EXCEPT ![editingBranch.index] = trim(editingBranch.name)]
            /\ editingBranch' = [def |-> FALSE]
            /\ UNCHANGED <<storeVars, pageVars, cmpVars, readVars, formVars,
                           stations, scannerVars, editImageVars, manageVars>>

\* the save button of the row, or Enter in its input
saveEdit ==
    /\ editingBranch.def
    /\ IF trim(editingBranch.name) = <<>>
       THEN UNCHANGED vars
       ELSE IF \E i \in 1..Len(libraryBranches) :
                   /\ i # editingBranch.index
                   /\ toLowerCase(libraryBranches[i])
                          = toLowerCase(trim(editingBranch.name))
       THEN UNCHANGED vars
       ELSE /\ libraryBranches' =
                   [libraryBranches EXCEPT ![editingBranch.index] = trim(editingBranch.name)]
            /\ editingBranch' = [def |-> FALSE]
            /\ UNCHANGED <<storeVars, pageVars, cmpVars, readVars, formVars,
                           stations, scannerVars, editImageVars, manageVars>>

cancelEdit ==
    /\ editingBranch.def
    /\ editingBranch' = [def |-> FALSE]
    /\ UNCHANGED <<storeVars, pageVars, cmpVars, readVars, formVars,
                   stations, scannerVars, editImageVars, manageVars,
                   libraryBranches>>

-----------------------------------------------------------------------------
(* StudentForm: studentFormSchema, as the resolver of the form applies it   *)
(* on submit.  The fields are strings, sequences of characters; the result  *)
(* is the set of the paths of the issues, and the form calls onSubmit when  *)
(* there is none.                                                           *)

Staff == <<"S", "t", "a", "f", "f">>
YEARS_OF_STUDY == { <<"F", "Y">>, <<"S", "Y">>, <<"T", "Y">> }

\* the issues of the z.object(...): min(n) compares the length, untrimmed;
\* yearOfStudy is a value of the select, or undefined
ObjectIssues(data) ==
    {path \in {"id", "name", "branch", "enrollNo", "yearOfStudy"} :
        \/ path = "id" /\ Len(data.id) < 1
        \/ path = "name" /\ Len(data.name) < 2
        \/ path = "branch" /\ Len(data.branch) < 1
        \/ path = "enrollNo" /\ Len(data.enrollNo) < 1
        \/ path = "yearOfStudy" /\ data.yearOfStudy.def
                                /\ data.yearOfStudy.str \notin YEARS_OF_STUDY}

\* the issues the superRefine callback adds
RefineIssues(data) ==
    IF data.branch = Staff
    THEN {}
    ELSE {path \in {"enrollNo", "yearOfStudy"} :
             \/ path = "enrollNo" /\ trim(data.enrollNo) = <<>>
             \/ path = "yearOfStudy" /\ ~Truthy(data.yearOfStudy)}

\* a length below the minimum does not abort the parse of the object, so the
\* refinement runs on the same data and its issues are added
studentFormSchema(data) == ObjectIssues(data) \cup RefineIssues(data)

\* no submit has been validated
NotValidated == {"not validated"}

\* useForm defaultValues of an empty form
EmptyForm ==
    [id |-> <<>>, name |-> <<>>, branch |-> <<>>, enrollNo |-> <<>>,
     yearOfStudy |-> Undefined]

InitForm ==
    /\ formValues = EmptyForm
    /\ formIssues = NotValidated

\* what the user may have entered when the form is submitted
FormIds == { <<>>, <<" ">>, <<"A">> }
FormNames == { <<>>, <<"A">>, <<"A", "n">>, <<"A", "n", "n">> }
FormBranches == { <<>>, Staff, toLowerCase(Staff), <<"C", "i", "v", "i", "l", " ", "E", "n", "g", "g", ".">> }
FormEnrollNos == { <<>>, <<" ">>, <<"1">> }
FormYears == {Some(y) : y \in YEARS_OF_STUDY} \cup {Undefined}

FormInputs ==
    [id : FormIds, name : FormNames, branch : FormBranches,
     enrollNo : FormEnrollNos, yearOfStudy : FormYears]

\* form.handleSubmit: the resolver validates the field values
StudentFormSubmit ==
    /\ formIssues = NotValidated
    /\ formIssues' = studentFormSchema(formValues)
    /\ UNCHANGED <<storeVars, pageVars, cmpVars, readVars, stations, adminVars,
                   scannerVars, editImageVars, editingBranch,
                   formValues>>

-----------------------------------------------------------------------------
(* A direct call of compareImagesRoughly *)

CompareCall ==
    /\ match = "pending"
    /\ match' = compareImagesRoughly(imageUri1, imageUri2)
    /\ UNCHANGED <<storeVars, pageVars, readVars, formVars, stations, adminVars,
                   scannerVars, editImageVars, editingBranch,
                   imageUri1, imageUri2>>

HeadLengths == {0, 500, 4700} \cup {450 - j : j \in 0..MaxJitter}
TailLengths == {0, 550} \cup {50 - j : j \in 0..MaxJitter}
                        \cup {500 - j : j \in 0..MaxJitter}

ComparePayloads ==
    { Canon(<<Run(c1, n1), Run(c2, n2)>>) :
        <<c1, c2>> \in {"A", "B"} \X {"A", "B"}, <<n1, n2>> \in HeadLengths \X TailLengths }

CompareInputs == {Some(p) : p \in ComparePayloads} \cup {Undefined}

-----------------------------------------------------------------------------
(* Specifications *)

InitStores ==
    /\ students = <<>>
    /\ entryLogs = <<>>

InitPage ==
    /\ isProcessing = FALSE
    /\ isDetecting = FALSE
    /\ isExtracting = FALSE
    /\ scanSessionError = "null"
    /\ lastScanResult = NullResult
    /\ capturedImageUri = Undefined
    /\ processingTimeoutRef = NoTimeout
    /\ lastProcessedImage = Undefined
    /\ detectionCoolDown = FALSE
    /\ coolDownTimers = 0
    /\ inFlight = <<>>

\* no direct call of a helper is under way
InitCalls ==
    /\ imageUri1 = Undefined
    /\ imageUri2 = Undefined
    /\ match = "pending"
    /\ lookupId = <<>>
    /\ lookupResult = NoLookup
    /\ InitForm

\* the manage-students page before its mount effect has run
InitAdmin ==
    /\ pageStudents = <<>>
    /\ studentToEdit = NotFound
    /\ isEditDialogOpen = FALSE
    /\ editModeCapturedImageUri = Undefined
    /\ isEditModeScanning = FALSE
    /\ isEditModeExtracting = FALSE
    /\ editModeExtractionError = "null"
    /\ libraryBranches = DEFAULT_BRANCHES
    /\ editingBranch = [def |-> FALSE]

Init ==
    /\ InitStores
    /\ InitPage
    /\ InitCalls
    /\ InitAdmin
    /\ InitStations
    /\ InitScanner

Next ==
    \/ \E f \in FormSubmissions : handleFormSubmit(f, f.image)
    \/ \E img \in FrameImages : ProcessCapturedImage(img)
    \/ \E i \in 1..Len(inFlight) : DetectedIdCard(i)
    \/ \E i \in 1..Len(inFlight) : DetectedNoCard(i)
    \/ \E i \in 1..Len(inFlight), t \in Times : AiCallFailed(i, t)
    \/ \E i \in 1..Len(inFlight), r \in ExtractionResults, t \in Times :
           ExtractedNothing(i, r, t)
    \/ \E i \in 1..Len(inFlight), r \in ExtractionResults, t \in Times :
           ExtractedId(i, r, t)
    \/ \E text \in RawIds, t \in Times : handleManualSubmit(text, t)
    \/ ProcessingTimeout
    \/ CoolDownFinished

Spec == Init /\ [][Next]_vars

\* two readings of the clock, one minimum interval apart
ShortTimes == {0, MIN_LIBRARY_INTERVAL_SECONDS * 1000}

\* the add-student page and the manage-students page, each in a tab of its
\* own, over the same localStorage
\* the form the add-student page submits while the other pages are at work
OneFormSubmission == { f \in FormSubmissions : f.id = <<"A">> }

\* the scan page with the events of its scanner and its dismiss buttons, for
\* one registered student and one frame
NextBusy ==
    \/ \E f \in OneFormSubmission : handleFormSubmit(f, f.image)
    \/ ProcessCapturedImage(ImgA)
    \/ \E i \in 1..Len(inFlight) : DetectedIdCard(i)
    \/ \E i \in 1..Len(inFlight) : DetectedNoCard(i)
    \/ \E i \in 1..Len(inFlight), t \in ShortTimes : AiCallFailed(i, t)
    \/ \E i \in 1..Len(inFlight), r \in ExtractionResults, t \in ShortTimes :
           ExtractedNothing(i, r, t)
    \/ \E i \in 1..Len(inFlight), r \in ExtractionResults, t \in ShortTimes :
           ExtractedId(i, r, t)
    \/ \E text \in RawIds, t \in ShortTimes : handleManualSubmit(text, t)
    \/ ProcessingTimeout
    \/ CoolDownFinished
    \/ handleScannerError
    \/ clearStatus

SpecBusy == Init /\ [][NextBusy]_vars

\* a pending detection or extraction call settles: resolves or rejects
AiCallReturns ==
    \/ \E i \in 1..Len(inFlight) : DetectedIdCard(i)
    \/ \E i \in 1..Len(inFlight) : DetectedNoCard(i)
    \/ \E i \in 1..Len(inFlight), t \in ShortTimes : AiCallFailed(i, t)
    \/ \E i \in 1..Len(inFlight), r \in ExtractionResults, t \in ShortTimes :
          ExtractedNothing(i, r, t)
    \/ \E i \in 1..Len(inFlight), r \in ExtractionResults, t \in ShortTimes :
          ExtractedId(i, r, t)

\* the scan page when awaited calls settle and scheduled timers fire
SpecBusyFair ==
    /\ SpecBusy
    /\ WF_vars(AiCallReturns)
    /\ WF_vars(ProcessingTimeout)
    /\ WF_vars(CoolDownFinished)

\* the branches page, and the add-student page in another tab
NextBranches ==
    \/ \E f \in OneFormSubmission : handleFormSubmit(f, f.image)
    \/ \E name \in NewBranchNames : handleAddBranch(name)
    \/ \E index \in 1..Len(libraryBranches) : handleDeleteBranch(index)
    \/ \E index \in 1..Len(libraryBranches) : startEditing(index)
    \/ \E value \in NewBranchNames : handleEditChange(value)
    \/ cancelEdit
    \/ saveEdit

SpecBranches == Init /\ [][NextBranches]_vars

\* new images that reach the edit dialog, as a frame of the re-scan or as
\* an upload
NewEditImages == {ImgT, ImgS}

\* the manage-students page with the image section of its edit dialog, and
\* the add-student page
NextEditImage ==
    \/ \E f \in OneFormSubmission : handleFormSubmit(f, f.image)
    \/ ManageStudentsPageMount
    \/ \E i \in 1..Len(pageStudents) : handleEditClick(pageStudents[i])
    \/ CloseEditDialog
    \/ EditRescanClick
    \/ \E frame \in NewEditImages \cup {Undefined} : handleEditManualStop(frame)
    \/ EditScannerError
    \/ \E result \in NewEditImages : handleEditFileUpload(result)
    \/ \E extracted \in BOOLEAN : EditExtractionSettled(extracted)
    \/ \E f \in EditSubmissions : handleEditSubmit(f)

SpecEditImage == Init /\ [][NextEditImage]_vars

\* an edit that changes the letter case of the id of student 'A'
CaseEdits == { [id |-> <<"a">>, name |-> "Ann", branch |-> "Civil Engg."] }

\* the add-student page, the manage-students page and the manual field of
\* the scan page, each in a tab of its own; the dashboard reads the stores
NextDashboard ==
    \/ \E f \in OneFormSubmission : handleFormSubmit(f, f.image)
    \/ ManageStudentsPageMount
    \/ \E i \in 1..Len(pageStudents) : handleEditClick(pageStudents[i])
    \/ CloseEditDialog
    \/ \E f \in CaseEdits : handleEditSubmit(f)
    \/ \E text \in RawIds, t \in ShortTimes : handleManualSubmit(text, t)
    \/ ProcessingTimeout

SpecDashboard == Init /\ [][NextDashboard]_vars

\* the scan page with its scanner, and the add-student page
NextScanner ==
    \/ \E f \in OneFormSubmission : handleFormSubmit(f, f.image)
    \/ startCamera
    \/ handleVideoPlay
    \/ startCameraFailed
    \/ AutoScanEffect
    \/ IntervalDelivers(ImgA)
    \/ captureFrameFailed
    \/ handleVideoError
    \/ CleanupRearmed
    \/ ScannerUnmount
    \/ AiCallReturns
    \/ ProcessingTimeout
    \/ CoolDownFinished

SpecScanner == Init /\ [][NextScanner]_vars

\* the same when awaited calls settle
SpecScannerFair == SpecScanner /\ WF_vars(AiCallReturns)

\* two scan stations and the add-student page
NextStations ==
    \/ \E f \in OneFormSubmission : handleFormSubmit(f, f.image)
    \/ \E s \in Stations, text \in RawIds, t \in Times : StationSubmit(s, text, t)
    \/ \E s \in Stations : StationGetItem(s)
    \/ \E s \in Stations : StationSetItem(s)
    \/ \E s \in Stations : StationTimeout(s)

SpecStations == Init /\ [][NextStations]_vars

\* the scan page's manual entry over a localStorage that may refuse a write
NextStorage ==
    \/ \E f \in FormSubmissions : handleFormSubmit(f, f.image)
    \/ \E text \in RawIds, t \in Times : handleManualSubmit(text, t)
    \/ \E text \in RawIds, t \in Times : handleManualSubmitQuotaExceeded(text, t)
    \/ ProcessingTimeout

SpecStorage == Init /\ [][NextStorage]_vars

NextStudents ==
    \/ \E f \in FormSubmissions : handleFormSubmit(f, f.image)
    \/ ManageStudentsPageMount
    \/ \E i \in 1..Len(pageStudents) : handleDeleteStudent(pageStudents[i].id)
    \/ \E i \in 1..Len(pageStudents) : handleEditClick(pageStudents[i])
    \/ CloseEditDialog
    \/ \E f \in EditSubmissions : handleEditSubmit(f)

SpecStudents == Init /\ [][NextStudents]_vars

\* the scan page as well, in a third tab, with one frame image and two
\* readings of the clock
NextAdmin ==
    \/ \E f \in OneFormSubmission : handleFormSubmit(f, f.image)
    \/ ManageStudentsPageMount
    \/ \E i \in 1..Len(pageStudents) : handleDeleteStudent(pageStudents[i].id)
    \/ \E i \in 1..Len(pageStudents) : handleEditClick(pageStudents[i])
    \/ CloseEditDialog
    \/ \E f \in EditSubmissions : handleEditSubmit(f)
    \/ \E name \in NewBranchNames : handleAddBranch(name)
    \/ handleDeleteBranch(1)
    \/ ProcessCapturedImage(ImgA)
    \/ \E i \in 1..Len(inFlight) : DetectedIdCard(i)
    \/ \E i \in 1..Len(inFlight) : DetectedNoCard(i)
    \/ \E i \in 1..Len(inFlight), t \in ShortTimes : AiCallFailed(i, t)
    \/ \E i \in 1..Len(inFlight), r \in ExtractionResults, t \in ShortTimes :
           ExtractedNothing(i, r, t)
    \/ \E i \in 1..Len(inFlight), r \in ExtractionResults, t \in ShortTimes :
           ExtractedId(i, r, t)
    \/ \E text \in RawIds, t \in ShortTimes : handleManualSubmit(text, t)
    \/ ProcessingTimeout
    \/ CoolDownFinished

SpecAdmin == Init /\ [][NextAdmin]_vars

\* students registered, deleted and registered anew between submissions that
\* reach the classification: the record of an id changes while logs of it exist
NextRecords ==
    \/ \E f \in FormSubmissions : handleFormSubmit(f, f.image)
    \/ ManageStudentsPageMount
    \/ \E i \in 1..Len(pageStudents) : handleDeleteStudent(pageStudents[i].id)
    \/ \E img \in FrameImages : ProcessCapturedImage(img)
    \/ \E i \in 1..Len(inFlight) : DetectedIdCard(i)
    \/ \E i \in 1..Len(inFlight), r \in ExtractionResults, t \in ShortTimes :
           ExtractedId(i, r, t)
    \/ \E text \in RawIds, t \in ShortTimes : handleManualSubmit(text, t)
    \/ ProcessingTimeout

SpecRecords == Init /\ [][NextRecords]_vars

InitCompare ==
    /\ InitStores
    /\ InitPage
    /\ imageUri1 \in CompareInputs
    /\ imageUri2 \in CompareInputs
    /\ match = "pending"
    /\ lookupId = <<>>
    /\ lookupResult = NoLookup
    /\ InitForm
    /\ InitAdmin
    /\ InitStations
    /\ InitScanner

NextCompare == CompareCall

SpecCompare == InitCompare /\ [][NextCompare]_vars

-----------------------------------------------------------------------------
(* Direct calls of the read helpers, getStudentById and getLastLogForStudent, *)
(* on stores of any content and order                                         *)

\* sequences over S of length at most n
SeqsUpTo(S, n) == UNION {[1..k -> S] : k \in 0..n}

\* student stores the add-student page leaves: no two ids equal after
\* trimming and lower-casing
ReadStudentStores ==
    {st \in SeqsUpTo({NewStudent(f, f.image) : f \in FormSubmissions}, MaxStudents) :
        \A i, j \in 1..Len(st) :
            NormalizeId(st[i].id) = NormalizeId(st[j].id) => i = j}

ReadTimes == {0, TickMs}

\* a log as saveEntryLog stores it
ReadLog(student, t, type) ==
    StoredLog([id |-> LogId(t, student.id),
               studentId |-> student.id,
               studentName |-> student.name,
               branch |-> student.branch,
               timestamp |-> t,
               type |-> type,
               imageMatch |-> "undefined"])

\* log stores in any order of time
ReadLogStores ==
    SeqsUpTo({ReadLog(NewStudent(f, f.image), t, type) :
                 f \in FormSubmissions, t \in ReadTimes, type \in {"Entry", "Exit"}},
             MaxLogs)

GetStudentByIdCall ==
    /\ lookupResult = NoLookup
    /\ lookupResult' = [fn |-> "getStudentById",
                        result |-> getStudentById(students, lookupId)]
    /\ UNCHANGED <<storeVars, pageVars, cmpVars, formVars, stations, adminVars,
                   scannerVars, editImageVars, editingBranch,
                   lookupId>>

GetLastLogForStudentCall ==
    /\ lookupResult = NoLookup
    /\ lookupResult' = [fn |-> "getLastLogForStudent",
                        result |-> getLastLogForStudent(entryLogs, lookupId)]
    /\ UNCHANGED <<storeVars, pageVars, cmpVars, formVars, stations, adminVars,
                   scannerVars, editImageVars, editingBranch,
                   lookupId>>

InitRead ==
    /\ \/ students \in ReadStudentStores /\ entryLogs = <<>>
       \/ students = <<>> /\ entryLogs \in ReadLogStores
    /\ InitPage
    /\ imageUri1 = Undefined
    /\ imageUri2 = Undefined
    /\ match = "pending"
    /\ lookupId \in RawIds
    /\ lookupResult = NoLookup
    /\ InitForm
    /\ InitAdmin
    /\ InitStations
    /\ InitScanner

\* a submit of the student form, for every combination of field values
InitStudentForm ==
    /\ InitStores
    /\ InitPage
    /\ imageUri1 = Undefined
    /\ imageUri2 = Undefined
    /\ match = "pending"
    /\ lookupId = <<>>
    /\ lookupResult = NoLookup
    /\ formValues \in FormInputs
    /\ formIssues = NotValidated
    /\ InitAdmin
    /\ InitStations
    /\ InitScanner

NextStudentForm == StudentFormSubmit

SpecStudentForm == InitStudentForm /\ [][NextStudentForm]_vars

NextRead == GetStudentByIdCall \/ GetLastLogForStudentCall

SpecRead == InitRead /\ [][NextRead]_vars

-----------------------------------------------------------------------------
(* Properties of the classification (sharedProcessLogic) *)

MinIntervalMs == MIN_LIBRARY_INTERVAL_SECONDS * 1000

NormalizedIds == {NormalizeId(r) : r \in RawIds} \ {<<>>}

LogsOf(logs, nid) == {i \in 1..Len(logs) : NormalizeId(logs[i].studentId) = nid}
LogTime(logs, i) == parseDate(logs[i].timestamp)
Registered(nid) == \E i \in 1..Len(students) : NormalizeId(students[i].id) = nid

\* the logs of nid that no other log of nid is newer than
MostRecent(logs, nid) ==
    {i \in LogsOf(logs, nid) :
        \A j \in LogsOf(logs, nid) : LogTime(logs, j) <= LogTime(logs, i)}

\* the step leaves a result card stamped with the time now; every call of
\* sharedProcessLogic that reads the clock as now does, so the steps below are
\* recognised by their stamp first
Stamped(now) ==
    /\ lastScanResult' # NullResult
    /\ lastScanResult'.log.timestamp = now

\* the step is a scan that extracted the id text and read the clock as now
ScanSubmission(text, now) ==
    /\ Stamped(now)
    /\ \E i \in 1..Len(inFlight) : ExtractedId(i, Some(text), now)

\* the step is a call of sharedProcessLogic for the id text, typed or
\* extracted from a frame, that read the clock as now
Submission(text, now) ==
    \/ Stamped(now) /\ handleManualSubmit(text, now)
    \/ ScanSubmission(text, now)

ShowsError(kind) ==
    /\ lastScanResult # NullResult
    /\ lastScanResult.log.type = "Error"
    /\ lastScanResult.log.message.kind = kind

ShowsSuccess ==
    /\ lastScanResult # NullResult
    /\ lastScanResult.log.type \in {"Entry", "Exit"}

\* position of log i among the logs of its student sorted by timestamp
\* ascending (logs of equal timestamp in stored order)
Rank(logs, nid, i) ==
    Cardinality({j \in LogsOf(logs, nid) :
                    \/ LogTime(logs, j) < LogTime(logs, i)
                    \/ LogTime(logs, j) = LogTime(logs, i) /\ j < i})

\* C1: for every student id (trimmed, case-insensitive) the stored logs of
\* that id, sorted by timestamp ascending, read Entry, Exit, Entry, ...
C1_Alternation ==
    \A i \in 1..Len(entryLogs) :
        LET nid == NormalizeId(entryLogs[i].studentId)
        IN entryLogs[i].type =
              IF Rank(entryLogs, nid, i) % 2 = 0 THEN "Entry" ELSE "Exit"

\* a student has gone in, out and in again
C1_Witness ==
    \E nid \in NormalizedIds : Cardinality(LogsOf(entryLogs, nid)) >= 3

\* C2: a submission for a registered student whose most recent log is less
\* than the minimum interval older than the time read ends in the rate-limited
\* error result and leaves the log store as it was
C2_RateLimitedNoLog ==
    [][\A text \in RawIds, now \in Times :
          ( /\ Submission(text, now)
            /\ Registered(NormalizeId(text))
            /\ \E i \in MostRecent(entryLogs, NormalizeId(text)) :
                   now - LogTime(entryLogs, i) < MinIntervalMs )
          => /\ entryLogs' = entryLogs
             /\ ShowsError("RateLimited")' ]_vars

\* the rate-limited card is shown for a submission made after the student's
\* last log, less than the minimum interval later
C2_Witness ==
    /\ ShowsError("RateLimited")
    /\ \E i \in 1..Len(entryLogs) :
          /\ NormalizeId(entryLogs[i].studentId) = NormalizeId(lastScanResult.student.id)
          /\ lastScanResult.log.timestamp > LogTime(entryLogs, i)

ElapsedOnCard ==
    LET nid == NormalizeId(lastScanResult.student.id)
        last == CHOOSE i \in MostRecent(entryLogs, nid) : TRUE
    IN lastScanResult.log.timestamp - LogTime(entryLogs, last)

\* C4 as stated: the wait reported is minIntervalSeconds - elapsed
C4_WaitIsExactRemainder ==
    ShowsError("RateLimited")
        => lastScanResult.log.message.wait * 1000 = MinIntervalMs - ElapsedOnCard

\* C4 as amended: the wait reported is minIntervalSeconds - elapsed rounded up
\* to whole seconds, the least whole number of seconds not below it
C4_WaitIsRemainderRoundedUp ==
    ShowsError("RateLimited")
        => LET wait == lastScanResult.log.message.wait
           IN /\ wait * 1000 >= MinIntervalMs - ElapsedOnCard
              /\ (wait - 1) * 1000 < MinIntervalMs - ElapsedOnCard

\* a refusal after an elapsed time that is no whole number of seconds
C4_Witness ==
    /\ ShowsError("RateLimited")
    /\ ElapsedOnCard > 0
    /\ ElapsedOnCard % 1000 # 0

WithoutImageMatch(log) == [log EXCEPT !.imageMatch = "undefined"]

\* what a submission of the id text at time now leaves when there is no image
\* to judge, and so no verdict
DecisionWithoutVerdict(text, now) ==
    LET o == ProcessOutcome(students, entryLogs, NormalizeId(text), "manual",
                            Undefined, now)
    IN [logs |-> LogsAfter(o, entryLogs),
        card |-> ResultState(o, NormalizeId(text), "manual", Undefined, now)]

\* C6: for the same stores, clock and scanned id, a scan appends a log, or
\* none, exactly as a submission without any verdict does, whatever the
\* verdict on its image: the logs differ in imageMatch at most, and the card
\* shows the same student and the same log or error
C6_VerdictDoesNotDecide ==
    [][\A text \in RawIds, now \in Times :
          ScanSubmission(text, now)
          => LET d == DecisionWithoutVerdict(text, now)
             IN /\ Len(entryLogs') = Len(d.logs)
                /\ \A k \in 1..Len(d.logs) :
                       WithoutImageMatch(entryLogs'[k]) = WithoutImageMatch(d.logs[k])
                /\ lastScanResult'.student = d.card.student
                /\ IF d.card.log.type = "Error"
                   THEN lastScanResult'.log = d.card.log
                   ELSE WithoutImageMatch(lastScanResult'.log)
                            = WithoutImageMatch(d.card.log) ]_vars

\* logs with each of the three values of imageMatch are in the store: a scan
\* judged a match, a scan judged a mismatch, and one without a verdict
C6_Witness ==
    \A v \in {"true", "false", "undefined"} :
        \E i \in 1..Len(entryLogs) : entryLogs[i].imageMatch = v

\* C12: a submission, typed or scanned, of an id that no stored student has
\* (ids trimmed and lower-cased) ends in the not-registered error card and
\* leaves the log store and the student store as they were
C12_NotRegisteredNoLog ==
    [][\A text \in RawIds, now \in Times :
          (Submission(text, now) /\ ~Registered(NormalizeId(text)))
          => /\ entryLogs' = entryLogs
             /\ students' = students
             /\ ShowsError("NotRegistered")' ]_vars

\* the not-registered card is shown while another student is registered and
\* has a log
C12_Witness ==
    /\ ShowsError("NotRegistered")
    /\ students # <<>>
    /\ entryLogs # <<>>
    /\ \A i \in 1..Len(students) :
           toUpperCase(NormalizeId(students[i].id)) # lastScanResult.log.message.id

\* the step ends the processing of a frame that detection found to be no ID
\* card, or from which no id number, or a blank one, was extracted
FrameRejected ==
    \/ \E i \in 1..Len(inFlight) : DetectedNoCard(i)
    \/ \E now \in Times :
           /\ Stamped(now)
           /\ \E i \in 1..Len(inFlight), r \in ExtractionResults :
                  ExtractedNothing(i, r, now)

\* the card is one that sharedProcessLogic leaves
ShowsClassification ==
    ShowsSuccess \/ ShowsError("NotRegistered") \/ ShowsError("RateLimited")

\* C13: the step that ends a frame found to be no ID card, or to carry no id
\* number or a blank one, leaves both stores as they were and shows no result
\* of the identity lookup or of the classification: no card, or the
\* extraction-failed card
C13_RejectedFrameWritesNothing ==
    [][FrameRejected
       => /\ entryLogs' = entryLogs
          /\ students' = students
          /\ ~ShowsClassification'
          /\ lastScanResult' = NullResult \/ ShowsError("ExtractionFailed")' ]_vars

\* the extraction-failed card is shown while students are registered and a
\* log is stored
C13_Witness ==
    /\ ShowsError("ExtractionFailed")
    /\ students # <<>>
    /\ entryLogs # <<>>

\* C14: a success card is shown only for a log that is in the log store; a
\* submission whose write to the log store failed ends in an error card
C14_SuccessMeansStored ==
    ShowsSuccess
    => \E k \in 1..Len(entryLogs) : entryLogs[k] = StoredLog(lastScanResult.log)

\* a student other than the one stored as `self` is stored under the id, ids
\* trimmed and lower-cased
StoredUnder(id, self) ==
    \E i \in 1..Len(students) :
        /\ NormalizeId(students[i].id) = NormalizeId(id)
        /\ students[i].id # self

UniqueIds ==
    \A i, j \in 1..Len(students) :
        NormalizeId(students[i].id) = NormalizeId(students[j].id) => i = j

\* an add under an id that a stored student has leaves the store as it was
CollidingAddRejected ==
    \A f \in FormSubmissions :
        (handleFormSubmit(f, f.image) /\ StoredUnder(f.id, <<>>))
        => students' = students

\* an edit that gives the student an id that another stored student has
\* leaves the store as it was
CollidingRenameRejected ==
    \A f \in EditSubmissions :
        (handleEditSubmit(f) /\ studentToEdit.def
           /\ StoredUnder(f.id, studentToEdit.val.id))
        => students' = students

\* C15: after every add, edit and delete no two stored students have the same
\* id, ids trimmed and lower-cased, and an add or a rename that collides with
\* a stored student is rejected and leaves the student store unchanged
C15_UniqueIdsCollisionsRejected ==
    [][UniqueIds' /\ CollidingAddRejected /\ CollidingRenameRejected]_vars

CandidatePending ==
    \/ inFlight # <<>>
    \/ processingTimeoutRef # NoTimeout
    \/ coolDownTimers > 0

\* the step accepts a frame or a manual submission
CandidateAccepted ==
    \/ \E img \in FrameImages : ProcessCapturedImage(img)
    \/ \E text \in RawIds, now \in Times : handleManualSubmit(text, now)

\* C17: isProcessing is set for as long as a candidate is being processed,
\* its result is displayed or the cooldown is running, and no frame and no
\* manual submission is accepted during that time, whatever else happens
C17_OneCandidateAtATime ==
    [][/\ CandidatePending' => isProcessing'
       /\ CandidateAccepted => ~CandidatePending ]_vars

\* the form has been validated and onSubmit was called
FormAccepted == formIssues = {}

\* C18: a submitted form is accepted exactly when id is non-empty, name has
\* at least 2 characters, branch is non-empty and either branch is Staff or
\* enrollNo is non-blank and yearOfStudy is one of FY, SY, TY
C18_FormAcceptedExactlyWhenComplete ==
    formIssues # NotValidated
    => (FormAccepted
        <=> /\ formValues.id # <<>>
            /\ Len(formValues.name) >= 2
            /\ formValues.branch # <<>>
            /\ \/ formValues.branch = Staff
               \/ /\ trim(formValues.enrollNo) # <<>>
                  /\ formValues.yearOfStudy.def
                  /\ formValues.yearOfStudy.str \in YEARS_OF_STUDY)

\* the imageMatch of a log written for the student by the step, which is a
\* manual submission or the end of the processing of a frame
ExpectedImageMatch(student) ==
    IF lastScanResult'.source = "manual" \/ ~Truthy(student.idCardImageUri)
    THEN "undefined"
    ELSE compareImagesRoughly(student.idCardImageUri, inFlight[1].image)

\* C20: the log a submission appends carries the id, the name and the branch
\* of the student record stored under the submitted id at that moment, the
\* time the submission read as its timestamp, and as imageMatch the verdict
\* of the comparison of the frame with the registered image: true, false, or
\* absent when inconclusive; imageMatch is absent for a manual submission and
\* for a student without a registered image
C20_LogCarriesCurrentRecord ==
    [][\A text \in RawIds, now \in Times :
          (Submission(text, now) /\ Len(entryLogs') > Len(entryLogs))
          => LET log == entryLogs'[Len(entryLogs')]
             IN \E i \in 1..Len(students) :
                   /\ NormalizeId(students[i].id) = NormalizeId(text)
                   /\ log.studentId = students[i].id
                   /\ log.studentName = students[i].name
                   /\ log.branch = students[i].branch
                   /\ parseDate(log.timestamp) = now
                   /\ log.imageMatch = ExpectedImageMatch(students[i]) ]_vars

\* two logs of one id carry different names, the record under the id having
\* been replaced in between, and the logs show every value of imageMatch
C20_Witness ==
    /\ \E j, k \in 1..Len(entryLogs) :
           /\ j < k
           /\ NormalizeId(entryLogs[j].studentId) = NormalizeId(entryLogs[k].studentId)
           /\ entryLogs[j].studentName # entryLogs[k].studentName
    /\ {entryLogs[k].imageMatch : k \in 1..Len(entryLogs)} = {"true", "false", "undefined"}

\* C21: no two stored logs have the same id
C21_LogIdsUnique ==
    \A j, k \in 1..Len(entryLogs) : entryLogs[j].id = entryLogs[k].id => j = k

\* two students have logs of the same time, and one student has two logs
C21_Witness ==
    /\ \E j, k \in 1..Len(entryLogs) :
           /\ entryLogs[j].timestamp = entryLogs[k].timestamp
           /\ entryLogs[j].studentId # entryLogs[k].studentId
    /\ \E j, k \in 1..Len(entryLogs) :
           /\ j # k
           /\ entryLogs[j].studentId = entryLogs[k].studentId

\* the stored logs of nid, sorted by timestamp, hold two consecutive events
\* of the same type
SameTypeInARow(nid) ==
    \E i, j \in LogsOf(entryLogs, nid) :
        /\ Rank(entryLogs, nid, j) = Rank(entryLogs, nid, i) + 1
        /\ entryLogs[i].type = entryLogs[j].type

Stored(log) == \E k \in 1..Len(entryLogs) : entryLogs[k] = StoredLog(log)

\* both stations have written a log for the same student, each having read
\* the same last event of that student, that is, before the other wrote
BothWroteAfterSameRead ==
    /\ \A s \in Stations : stations[s].phase = "shown" /\ stations[s].result # "Error"
    /\ stations[1].studentId = stations[2].studentId
    /\ stations[1].lastLog = stations[2].lastLog
    /\ Stored(stations[1].newLog)
    /\ Stored(stations[2].newLog)
    /\ stations[1].newLog # stations[2].newLog

\* C22: when two scan stations on one log store have both recorded an event
\* for the same student, each after reading that student's last event before
\* the other wrote, the student's logs sorted by timestamp hold two
\* consecutive events of the same type; such a state is reachable
C22_RaceBreaksAlternation ==
    BothWroteAfterSameRead => SameTypeInARow(stations[1].studentId)

\* the race has happened for a student who had logs before it
C22_Witness ==
    /\ BothWroteAfterSameRead
    /\ stations[1].lastLog.def
    /\ SameTypeInARow(stations[1].studentId)

\* the frames whose extraction has been called and has not returned
Extracting(frames) == {i \in 1..Len(frames) : frames[i].phase = "extract"}

\* C23: the extraction is called for a frame only by the step in which the
\* detection returns isIdCard = true for that frame; the step in which the
\* detection returns false ends the frame without an extraction call and
\* sets the cooldown; a frame is accepted only while no cooldown is set, and
\* it starts with the detection
C23_DetectionBeforeExtraction ==
    [][/\ Cardinality(Extracting(inFlight')) > Cardinality(Extracting(inFlight))
          => \E i \in 1..Len(inFlight) : DetectedIdCard(i)
       /\ (\E i \in 1..Len(inFlight) : DetectedNoCard(i))
          => /\ Len(inFlight') = Len(inFlight) - 1
             /\ Cardinality(Extracting(inFlight')) = Cardinality(Extracting(inFlight))
             /\ detectionCoolDown'
       /\ detectionCoolDown => Len(inFlight') <= Len(inFlight)
       /\ Len(inFlight') > Len(inFlight)
          => inFlight'[Len(inFlight')].phase = "detect" ]_vars

\* the cooldown after a frame without a card runs, after an earlier frame
\* went through detection and extraction and left a log
C23_Witness ==
    /\ detectionCoolDown
    /\ coolDownTimers > 0
    /\ inFlight = <<>>
    /\ entryLogs # <<>>

\* the idle scan page: not busy, no indicator, no result card on screen
Idle ==
    /\ ~isProcessing
    /\ ~isDetecting
    /\ ~isExtracting
    /\ lastScanResult = NullResult

\* what the user or the scanner does to the scan page: a frame delivered,
\* a manual submission, a scanner error, a dismissal
UserActs ==
    \/ ProcessCapturedImage(ImgA)
    \/ \E text \in RawIds, t \in ShortTimes : handleManualSubmit(text, t)
    \/ handleScannerError
    \/ clearStatus

ScannerStopped == ~streamRef

\* a step that stops the scanner
ScannerStops == streamRef /\ ~streamRef'

\* C25: a frame is delivered to onScanSuccess only by a scanner that holds
\* a camera stream and is active, and a stopped scanner has no auto-scan
\* interval left that could deliver one; stopping the scanner leaves the
\* frames in processing and the log as they are, and while the scanner
\* stays stopped the frames in processing come to their end.
C25_StoppedScannerDeliversNothing ==
    /\ [][IntervalDelivers(ImgA) => (streamRef /\ isActive /\ scannerMounted)]_vars
    /\ [](ScannerStopped => ~scanIntervalRef)
    /\ [][ScannerStops => (inFlight' = inFlight /\ entryLogs' = entryLogs)]_vars
    /\ (ScannerStopped /\ inFlight # <<>>) ~> (inFlight = <<>> \/ ~ScannerStopped)

\* C25 witness: the scanner stopped on an error while an accepted frame
\* is in processing
C25_Witness ==
    /\ ScannerStopped
    /\ ~isActive
    /\ ~scanIntervalRef
    /\ scanSessionError = "Failed to capture frame"
    /\ inFlight # <<>>

\* the log of nid that was appended last
LastAppended(logs, nid) ==
    CHOOSE i \in LogsOf(logs, nid) : \A j \in LogsOf(logs, nid) : j <= i

\* C26: on one scan station, for every student id (trimmed, lower-cased)
\* each stored log of the student is at least the minimum interval later
\* than every log of the student stored before it, whatever the clock read,
\* and getLastLogForStudent returns the log of the student appended last.
C26_LastAppendedIsNewest ==
    \A nid \in NormalizedIds :
        LET mine == LogsOf(entryLogs, nid)
        IN /\ \A i, j \in mine :
                  i < j => LogTime(entryLogs, j) - LogTime(entryLogs, i) >= MinIntervalMs
           /\ mine # {} =>
                  LET r == getLastLogForStudent(entryLogs, nid)
                  IN /\ r.def
                     /\ StoredLog(r.val) = entryLogs[LastAppended(entryLogs, nid)]

\* C26 witness: a student with two logs was submitted once more at a clock
\* reading before the last log, and was refused
C26_Witness ==
    /\ ShowsError("RateLimited")
    /\ LET nid == NormalizeId(lastScanResult.student.id)
       IN /\ Cardinality(LogsOf(entryLogs, nid)) >= 2
          /\ lastScanResult.log.timestamp
                 < LogTime(entryLogs, LastAppended(entryLogs, nid))

\* the student identities of the log store: ids trimmed and lower-cased, as
\* getLastLogForStudent compares them
LoggedIdentities(logs) == {NormalizeId(logs[i].studentId) : i \in 1..Len(logs)}

\* the identities whose most recent log is an Entry
InsideIdentities(logs) ==
    {nid \in LoggedIdentities(logs) :
        LET r == getLastLogForStudent(logs, nid)
        IN r.def /\ r.val.type = "Entry"}

\* C27: the dashboard's count of students currently inside is the number of
\* student identities (ids trimmed and lower-cased) whose most recent log
\* is an Entry.
C27_InsideCountPerIdentity ==
    getDashboardStats(students, entryLogs, 0).currentlyInside
        = Cardinality(InsideIdentities(entryLogs))

\* the step saves the edit dialog
EditSaved ==
    /\ isEditDialogOpen
    /\ ~isEditDialogOpen'
    /\ \E f \in EditSubmissions : handleEditSubmit(f)

\* C28: when the edit dialog is saved while it holds no newly captured or
\* uploaded image, every student that the save replaces gets the
\* idCardImageUri the edited student had when the dialog was opened.
C28_ImageKeptWithoutNewImage ==
    [][(EditSaved /\ editModeCapturedImageUri \notin NewEditImages)
       => \A i \in 1..Len(students') :
              students'[i] # pageStudents[i]
              => students'[i].idCardImageUri = studentToEdit.val.idCardImageUri]_vars

\* every name of the registry is non-empty after trimming, and no two are
\* equal when lower-cased
BranchesWellFormed(branches) ==
    /\ \A i \in 1..Len(branches) : trim(branches[i]) # <<>>
    /\ \A i, j \in 1..Len(branches) :
           i # j => toLowerCase(branches[i]) # toLowerCase(branches[j])

\* the step removes one name and leaves the others in place
BranchRemoved ==
    \E k \in 1..Len(libraryBranches) : libraryBranches' = RemoveAt(libraryBranches, k)

\* the step appends the name or puts it in the place of another
BranchWritten(name) ==
    \/ libraryBranches' = Append(libraryBranches, name)
    \/ \E k \in 1..Len(libraryBranches) :
           /\ libraryBranches[k] # name
           /\ libraryBranches' = [libraryBranches EXCEPT ![k] = name]

\* C29: every name of the branch registry is non-empty after trimming and
\* no two are equal case-insensitively; the registry changes only by the
\* removal of one name or by writing one trimmed name typed by the admin,
\* non-empty and unlike every other name, so a rejected add or rename
\* leaves it as it was; and no step that changes the registry or the
\* rename in progress changes a student record.
C29_BranchRegistryWellFormed ==
    /\ [](BranchesWellFormed(libraryBranches))
    /\ [][libraryBranches' # libraryBranches
          => \/ BranchRemoved
             \/ \E typed \in NewBranchNames :
                    /\ trim(typed) # <<>>
                    /\ BranchWritten(trim(typed))
                    /\ BranchesWellFormed(libraryBranches')]_vars
    /\ [][(libraryBranches' # libraryBranches \/ editingBranch' # editingBranch)
          => students' = students]_vars

\* C29 witness: a student is stored, a branch was renamed to a name that
\* differs from its old one only in case, and another was added
C29_Witness ==
    /\ Len(students) > 0
    /\ \E i \in 1..Len(libraryBranches) : libraryBranches[i] = <<"s", "t", "a", "f", "f">>
    /\ \E i \in 1..Len(libraryBranches) : libraryBranches[i] = <<"L", "a", "w">>
    /\ ~editingBranch.def

\* the frame is judged a Match with the last processed frame
MatchesLastProcessed(image) ==
    /\ Truthy(lastProcessedImage)
    /\ compareImagesRoughly(image, lastProcessedImage) = "true"

\* C30: no frame in detection or extraction is a Match with the last
\* processed frame, and a step that sets the busy flag, starts a detection
\* or writes a log for a frame is never for such a frame; the last
\* processed frame is replaced only by the step in which a frame leaves the
\* extraction with an id and has been through the identity lookup and the
\* classification, whose result card that step shows.
C30_SimilarFrameDropped ==
    /\ [](\A i \in 1..Len(inFlight) : ~MatchesLastProcessed(inFlight[i].image))
    /\ [][Len(inFlight') > Len(inFlight)
          => ~MatchesLastProcessed(inFlight'[Len(inFlight')].image)]_vars
    /\ [][lastProcessedImage' # lastProcessedImage
          => /\ \E i \in 1..Len(inFlight) :
                    /\ inFlight[i].phase = "extract"
                    /\ lastProcessedImage' = inFlight[i].image
                    /\ inFlight' = RemoveAt(inFlight, i)
             /\ lastScanResult' # NullResult
             /\ ~ShowsError("ExtractionFailed")'
             /\ ~ShowsError("AiCallFailed")'
             /\ ~ShowsError("NotRegistered")']_vars

-----------------------------------------------------------------------------
(* Properties of compareImagesRoughly, on a direct call *)

Compared == match # "pending"
Length1 == StrLen(imageUri1.str)
Length2 == StrLen(imageUri2.str)

\* the lengths differ by more than 5% of the larger one
LengthsFarApart == 100 * Abs(Length1 - Length2) > 5 * Max(Length1, Length2)

\* w = min(500, floor(10% of the first length), floor(10% of the second))
Window == Min(500, Min(Length1 \div 10, Length2 \div 10))

\* the last w characters of both payloads are equal, character by character
SameLastCharacters(w) ==
    \A k \in 1..w :
        CharAt(imageUri1.str, Length1 - w + k) = CharAt(imageUri2.str, Length2 - w + k)

\* C7 as stated: compare(x, x) is Match for any payload x
C7_SelfCompareIsMatch ==
    (Compared /\ imageUri1.def /\ imageUri2.def /\ imageUri1 = imageUri2)
        => match = Match

\* C7 as amended: compare(x, x) is Match for any payload x that is not empty,
\* whatever its length or content
C7_SelfCompareOfNonEmptyIsMatch ==
    (Compared /\ imageUri1.def /\ imageUri2.def /\ imageUri1 = imageUri2
              /\ Length1 > 0)
        => match = Match

\* a payload too short for the segment comparison was compared with itself
C7_Witness ==
    /\ Compared
    /\ imageUri1.def
    /\ imageUri1 = imageUri2
    /\ Length1 > 0
    /\ Length1 \div 10 < 50
    /\ match = Match

\* C8: compare is Inconclusive whenever the reference or the candidate (or
\* both) is absent, whatever the other one is
C8_AbsentIsInconclusive ==
    (Compared /\ (~imageUri1.def \/ ~imageUri2.def)) => match = Inconclusive

\* the candidate is absent, the reference a payload long enough to be compared
C8_Witness ==
    /\ Compared
    /\ imageUri1.def
    /\ Length1 \div 10 >= 50
    /\ ~imageUri2.def
    /\ match = Inconclusive

\* C9 as stated: two payloads whose lengths differ by more than 5% of the
\* larger length compare as Mismatch
C9_FarApartIsMismatch ==
    (Compared /\ imageUri1.def /\ imageUri2.def /\ LengthsFarApart)
        => match = Mismatch

\* C9 as amended: two payloads, neither of them empty, whose lengths differ by
\* more than 5% of the larger length compare as Mismatch
C9_FarApartNonEmptyIsMismatch ==
    (Compared /\ imageUri1.def /\ imageUri2.def /\ LengthsFarApart
              /\ Length1 > 0 /\ Length2 > 0)
        => match = Mismatch

\* two payloads with the same last characters, just over 5% apart in length
C9_Witness ==
    /\ Compared
    /\ imageUri1.def /\ imageUri2.def
    /\ Length1 > 0 /\ Length2 > 0
    /\ LengthsFarApart
    /\ 100 * Abs(Length1 - Length2) <= 6 * Max(Length1, Length2)
    /\ SameLastCharacters(Window)
    /\ match = Mismatch

\* C10: for two present, non-identical payloads with lengths within 5% of the
\* larger one, compare is Inconclusive when w < 50, and otherwise Match
\* exactly when the last w characters of both are equal, Mismatch when not
C10_SegmentDecides ==
    (Compared /\ imageUri1.def /\ imageUri2.def /\ imageUri1 # imageUri2
              /\ ~LengthsFarApart)
        => match = IF Window < 50 THEN Inconclusive
                   ELSE IF SameLastCharacters(Window) THEN Match
                   ELSE Mismatch

\* two different payloads of more than 5000 characters that agree on their
\* last 500 characters and differ just before them
C10_Witness ==
    /\ Compared
    /\ imageUri1.def /\ imageUri2.def
    /\ imageUri1 # imageUri2
    /\ ~LengthsFarApart
    /\ Window = 500
    /\ Length1 > 500 /\ Length2 > 500
    /\ CharAt(imageUri1.str, Length1 - 500) # CharAt(imageUri2.str, Length2 - 500)
    /\ match = Match

-----------------------------------------------------------------------------
(* Properties of the read helpers, on a direct call *)

LookedUp(fn) == lookupResult.fn = fn

\* C11: a call of getStudentById leaves both stores as they were, and its
\* result is the result for every raw id equal to the given one after trimming
\* and lower-casing: the same student, or not found for both
C11_LookupIsNormalized ==
    [][GetStudentByIdCall
       => /\ students' = students
          /\ entryLogs' = entryLogs
          /\ \A other \in RawIds :
                 NormalizeId(other) = NormalizeId(lookupId)
                 => getStudentById(students, other) = lookupResult'.result ]_vars

\* a student stored under an upper-case id was found by an id typed in lower
\* case with blanks around it, or the other way round
C11_Witness ==
    /\ LookedUp("getStudentById")
    /\ lookupResult.result.def
    /\ lookupResult.result.val.id # trim(lookupId)
    /\ \E other \in RawIds : other # lookupId /\ NormalizeId(other) = NormalizeId(lookupId)

\* C19: a call of getLastLogForStudent leaves both stores as they were; it
\* returns nothing when no stored log is of the student (ids trimmed and
\* lower-cased), and otherwise one of the student's stored logs, with its
\* timestamp revived, that none of the student's logs is newer than
C19_LastLogIsNewest ==
    [][GetLastLogForStudentCall
       => LET nid == NormalizeId(lookupId)
              r == lookupResult'.result
          IN /\ students' = students
             /\ entryLogs' = entryLogs
             /\ r.def <=> LogsOf(entryLogs, nid) # {}
             /\ r.def =>
                   /\ \E i \in LogsOf(entryLogs, nid) : StoredLog(r.val) = entryLogs[i]
                   /\ \A j \in LogsOf(entryLogs, nid) :
                          LogTime(entryLogs, j) <= r.val.timestamp ]_vars

\* the newest log of the student is neither the first nor the last stored
C19_Witness ==
    /\ LookedUp("getLastLogForStudent")
    /\ lookupResult.result.def
    /\ LET mine == LogsOf(entryLogs, NormalizeId(lookupId))
       IN /\ Cardinality(mine) >= 3
          /\ \A i \in mine :
                 (\A j \in mine : i <= j) \/ (\A j \in mine : j <= i)
                 => LogTime(entryLogs, i) < lookupResult.result.val.timestamp

====
